---------------------------- MODULE Spec2Model ----------------------------
(***************************************************************************)
(* Model of TextPseudonymizer (modules/pseudonymizer.py): the              *)
(* correspondence store, surrogate generation, the forward and inverse     *)
(* text substitution and the persisted correspondence file.                *)
(*                                                                         *)
(* Texts are strings; a Python dict is an insertion-ordered sequence of    *)
(* <<key, value>> pairs with pairwise distinct keys.  Offsets are Python   *)
(* offsets (0-based, end exclusive).                                       *)
(***************************************************************************)
EXTENDS Integers, Sequences, FiniteSets, TLC

(***************************************************************************)
(* Python str primitives, on the ASCII alphabet of the modelled texts.     *)
(***************************************************************************)
Uppers == "ABCDEFGHIJKLMNOPQRSTUVWXYZ"
Lowers == "abcdefghijklmnopqrstuvwxyz"

Char(s, i) == SubSeq(s, i, i)

\* the position of character c in alphabet
IndexIn(c, alphabet) == CHOOSE i \in 1..Len(alphabet) : Char(alphabet, i) = c

UpperChars == { Char(Uppers, i) : i \in 1..Len(Uppers) }
LowerChars == { Char(Lowers, i) : i \in 1..Len(Lowers) }

IsUpperChar(c) == c \in UpperChars
IsLowerChar(c) == c \in LowerChars
IsCased(c) == IsUpperChar(c) \/ IsLowerChar(c)

UpperChar(c) == IF IsLowerChar(c) THEN Char(Uppers, IndexIn(c, Lowers)) ELSE c
LowerChar(c) == IF IsUpperChar(c) THEN Char(Lowers, IndexIn(c, Uppers)) ELSE c

\* s[a:b] with Python's clamping of the two offsets
Slice(s, a, b) ==
  LET lo == IF a > Len(s) THEN Len(s) ELSE a
      hi == IF b > Len(s) THEN Len(s) ELSE b
  IN  IF hi <= lo THEN "" ELSE SubSeq(s, lo + 1, hi)

RECURSIVE MapChars(_, _, _)
\* s with its characters from position i on mapped: Up = TRUE upper(), FALSE lower()
MapChars(s, i, Up) ==
  IF i > Len(s) THEN ""
  ELSE (IF Up THEN UpperChar(Char(s, i)) ELSE LowerChar(Char(s, i)))
       \o MapChars(s, i + 1, Up)

StrUpper(s) == MapChars(s, 1, TRUE)
StrLower(s) == MapChars(s, 1, FALSE)

RECURSIVE TitleFrom(_, _, _)
\* str.title(): a cased character is upper-cased after an uncased one (or at the
\* start) and lower-cased after a cased one
TitleFrom(s, i, prevCased) ==
  IF i > Len(s) THEN ""
  ELSE LET c == Char(s, i)
       IN  (IF IsCased(c)
            THEN (IF prevCased THEN LowerChar(c) ELSE UpperChar(c))
            ELSE c)
           \o TitleFrom(s, i + 1, IsCased(c))

StrTitle(s) == TitleFrom(s, 1, FALSE)

HasCased(s) == \E i \in 1..Len(s) : IsCased(Char(s, i))
StrIsUpper(s) == HasCased(s) /\ \A i \in 1..Len(s) : ~IsLowerChar(Char(s, i))
StrIsLower(s) == HasCased(s) /\ \A i \in 1..Len(s) : ~IsUpperChar(Char(s, i))
\* str.istitle(): upper-case characters only after uncased ones, lower-case ones
\* only after cased ones, and at least one cased character
StrIsTitle(s) ==
  /\ HasCased(s)
  /\ \A i \in 1..Len(s) :
       LET prevCased == i > 1 /\ IsCased(Char(s, i - 1))
       IN  /\ IsUpperChar(Char(s, i)) => ~prevCased
           /\ IsLowerChar(Char(s, i)) => prevCased

StartsAt(s, sub, i) ==
  /\ i + Len(sub) - 1 <= Len(s)
  /\ SubSeq(s, i, i + Len(sub) - 1) = sub

\* sub in s
Contains(s, sub) == \E i \in 1..(Len(s) - Len(sub) + 1) : StartsAt(s, sub, i)

RECURSIVE CountFrom(_, _, _)
\* s.count(sub) from position i: non-overlapping occurrences, left to right
CountFrom(s, sub, i) ==
  IF i + Len(sub) - 1 > Len(s) THEN 0
  ELSE IF StartsAt(s, sub, i) THEN 1 + CountFrom(s, sub, i + Len(sub))
  ELSE CountFrom(s, sub, i + 1)

StrCount(s, sub) == CountFrom(s, sub, 1)

RECURSIVE ReplaceFrom(_, _, _, _)
\* s.replace(old, new) from position i: every non-overlapping occurrence, left to
\* right, in one pass (the inserted text is not scanned again); old is non-empty
ReplaceFrom(s, old, new, i) ==
  IF i > Len(s) THEN ""
  ELSE IF StartsAt(s, old, i) THEN new \o ReplaceFrom(s, old, new, i + Len(old))
  ELSE Char(s, i) \o ReplaceFrom(s, old, new, i + 1)

StrReplace(s, old, new) == ReplaceFrom(s, old, new, 1)

Digits == "0123456789"

RECURSIVE Decimal(_)
\* str(n) for n >= 0
Decimal(n) ==
  IF n < 10 THEN Char(Digits, n + 1)
  ELSE Decimal(n \div 10) \o Char(Digits, (n % 10) + 1)

RECURSIVE ZeroPad(_, _)
ZeroPad(s, width) == IF Len(s) >= width THEN s ELSE ZeroPad("0" \o s, width)

\* format(n, "04d") for n >= 0
Format04d(n) == ZeroPad(Decimal(n), 4)

(***************************************************************************)
(* Python dict: insertion-ordered <<key, value>> pairs, keys distinct.     *)
(***************************************************************************)
EmptyDict == << >>

Keys(d) == { d[i][1] : i \in 1..Len(d) }
Values(d) == { d[i][2] : i \in 1..Len(d) }
Has(d, k) == \E i \in 1..Len(d) : d[i][1] = k
Get(d, k) == d[CHOOSE i \in 1..Len(d) : d[i][1] = k][2]

\* d[k] = v: a present key keeps its position, a new key goes last
Put(d, k, v) ==
  IF Has(d, k)
  THEN [i \in 1..Len(d) |-> IF d[i][1] = k THEN <<k, v>> ELSE d[i]]
  ELSE Append(d, <<k, v>>)

RECURSIVE DictOf(_)
\* the dict built from a list of members, in order: what json.load makes of a
\* JSON object and what a dict comprehension makes of its pairs (last value wins)
DictOf(members) ==
  IF members = << >> THEN EmptyDict
  ELSE LET n == Len(members)
       IN  Put(DictOf(SubSeq(members, 1, n - 1)), members[n][1], members[n][2])

\* {v: k for k, v in d.items()}
Inverted(d) == DictOf([i \in 1..Len(d) |-> <<d[i][2], d[i][1]>>])

(***************************************************************************)
(* pseudonym_strategies and the fallback configuration                     *)
(***************************************************************************)
StrategyTypes == {"PERSONNE", "ETABLISSEMENT", "ORGANISATION", "LIEU", "CODE"}

pseudonym_strategies(entity_type) ==
  CASE entity_type = "PERSONNE"      -> [type |-> "structured", prefix |-> "PERS"]
    [] entity_type = "ETABLISSEMENT" -> [type |-> "structured", prefix |-> "ETAB"]
    [] entity_type = "ORGANISATION"  -> [type |-> "structured", prefix |-> "ORG"]
    [] entity_type = "LIEU"          -> [type |-> "structured", prefix |-> "LIEU"]
    [] entity_type = "CODE"          -> [type |-> "hash", prefix |-> "CODE"]

\* variant: the fallback configuration has the prefix of the first category
ConfigOf_FallbackPers(entity_type) ==
  IF entity_type \in StrategyTypes
  THEN pseudonym_strategies(entity_type)
  ELSE [type |-> "structured", prefix |-> "PERS"]

\* self.pseudonym_strategies.get(entity_type, {... 'ENT' ...})
ConfigOf(entity_type) ==
  IF entity_type \in StrategyTypes
  THEN pseudonym_strategies(entity_type)
  ELSE [type |-> "structured", prefix |-> "ENT"]

\* hashlib.md5(original.encode()).hexdigest()[:8].upper(), tabulated for the
\* entity texts of the modelled documents
Md5Hex8(original) ==
  CASE original = "Alice"     -> "64489C85"
    [] original = "Bob"       -> "2FC1C0BE"
    [] original = "M. Durand" -> "591E2247"
    [] original = "CODE-7781" -> "34911D00"
    [] original = "ACME CORP" -> "5884B805"
    [] original = "acme corp" -> "6F0FD267"
    [] original = "x@y.fr"    -> "1F676DBE"
    [] original = "12/05"     -> "868D4058"
    [] original = "CODE-2830"  -> "92255197"
    [] original = "CODE-32730" -> "92255197"
    [] original = "PERS_0001"  -> "476F7315"

(***************************************************************************)
(* generate_pseudonym, on a store st = [cm, rm, ec]: correspondence_map,   *)
(* reverse_map, entity_counters                                            *)
(***************************************************************************)
\* variant: a category's counter starts at 0
NextCounter_FromZero(ec, entity_type) ==
  IF ~Has(ec, entity_type)
  THEN Put(ec, entity_type, 0)
  ELSE Put(ec, entity_type, Get(ec, entity_type) + 1)

\* entity_counters after the structured branch has taken its next value
NextCounter(ec, entity_type) ==
  IF ~Has(ec, entity_type)
  THEN Put(ec, entity_type, 1)
  ELSE Put(ec, entity_type, Get(ec, entity_type) + 1)

\* variant: every strategy takes a counter value
CountersAfter_EveryStrategy(ec, entity_type) == NextCounter(ec, entity_type)

\* the counters a new original of entity_type leaves behind
CountersAfter(ec, entity_type) ==
  IF ConfigOf(entity_type).type = "structured"
  THEN NextCounter(ec, entity_type)
  ELSE ec

\* the candidate pseudonym, ec being the counters already advanced
Candidate(original, entity_type, ec) ==
  LET config == ConfigOf(entity_type)
  IN  IF config.type = "structured"
      THEN config.prefix \o "_" \o Format04d(Get(ec, entity_type))
      ELSE config.prefix \o "_" \o Md5Hex8(original)

RECURSIVE UniqueFrom(_, _, _, _)
\* while pseudonym in correspondence_map: pseudonym = f"{base}_{counter}"
UniqueFrom(cm, base_pseudonym, pseudonym, counter) ==
  IF Has(cm, pseudonym)
  THEN UniqueFrom(cm, base_pseudonym,
                  base_pseudonym \o "_" \o Decimal(counter), counter + 1)
  ELSE pseudonym

\* variant: the candidate is taken as it is, the uniqueness loop left out
UniquePseudonym_NoLoop(cm, base_pseudonym) == base_pseudonym

UniquePseudonym(cm, base_pseudonym) ==
  UniqueFrom(cm, base_pseudonym, base_pseudonym, 1)

\* the two assignments that record a correspondence
Recorded(st, pseudonym, original, ec) ==
  [cm |-> Put(st.cm, pseudonym, original),
   rm |-> Put(st.rm, original, pseudonym),
   ec |-> ec]

\* variant: generate_pseudonym without the reverse_map lookup it starts with
GeneratePseudonymOn_NoLookup(st, original, entity_type) ==
  LET ec == CountersAfter(st.ec, entity_type)
      pseudonym == UniquePseudonym(st.cm, Candidate(original, entity_type, ec))
  IN  [pseudonym |-> pseudonym, st |-> Recorded(st, pseudonym, original, ec)]

\* generate_pseudonym(original, entity_type): [pseudonym, st] its return value and
\* the store it leaves
GeneratePseudonymOn(st, original, entity_type) ==
  IF Has(st.rm, original)
  THEN [pseudonym |-> Get(st.rm, original), st |-> st]
  ELSE LET ec == CountersAfter(st.ec, entity_type)
           pseudonym == UniquePseudonym(st.cm, Candidate(original, entity_type, ec))
       IN  [pseudonym |-> pseudonym,
            st |-> Recorded(st, pseudonym, original, ec)]

(***************************************************************************)
(* pseudonymize_text                                                       *)
(***************************************************************************)
RECURSIVE InsertByStartDesc(_, _)
InsertByStartDesc(sorted, e) ==
  IF sorted = << >> THEN <<e>>
  ELSE IF Head(sorted).start >= e.start
       THEN <<Head(sorted)>> \o InsertByStartDesc(Tail(sorted), e)
       ELSE <<e>> \o sorted

\* variant: the entities are left in the order the recognizer gave them
SortByStartDesc_Unsorted(entities) == entities

RECURSIVE SortByStartDesc(_)
\* entities.sort(key=start, reverse=True): descending, equal keys in their order
SortByStartDesc(entities) ==
  IF entities = << >> THEN << >>
  ELSE LET n == Len(entities)
       IN  InsertByStartDesc(SortByStartDesc(SubSeq(entities, 1, n - 1)), entities[n])

\* extract_entities: the recognizer's spans ents of text as entity_info records,
\* sorted by start, descending
ExtractEntities(text, ents) ==
  SortByStartDesc([i \in 1..Len(ents) |->
                     [text  |-> Slice(text, ents[i].start, ents[i].end),
                      label |-> ents[i].label,
                      start |-> ents[i].start,
                      end   |-> ents[i].end]])

\* variant: the filter keeps every entity
FilterEntities_Unfiltered(entities, entity_types_to_mask) == entities

\* if entity_types_to_mask: keep the entities whose label is in it
FilterEntities(entities, entity_types_to_mask) ==
  IF entity_types_to_mask = {} THEN entities
  ELSE SelectSeq(entities, LAMBDA e : e.label \in entity_types_to_mask)

\* variant: the format is preserved by keeping the original text
PreserveFormat_KeepsOriginal(pseudonym, original_text, preserve_format) ==
  IF preserve_format /\ original_text # "" THEN original_text ELSE pseudonym

\* the letter case of the pseudonym spliced for original_text
PreserveFormat(pseudonym, original_text, preserve_format) ==
  IF preserve_format /\ original_text # ""
  THEN IF StrIsUpper(original_text) THEN StrUpper(pseudonym)
       ELSE IF StrIsTitle(original_text) THEN StrTitle(pseudonym)
       ELSE IF StrIsLower(original_text) THEN StrLower(pseudonym)
       ELSE pseudonym
  ELSE pseudonym

\* pseudonymized_text[:start_pos] + pseudonym + pseudonymized_text[end_pos:]
Splice(buffer, start_pos, end_pos, pseudonym) ==
  Slice(buffer, 0, start_pos) \o pseudonym \o Slice(buffer, end_pos, Len(buffer))

\* variant: the statistics start with one pseudonym counted as created
InitialStats_OneCreated(text) ==
  [original_length    |-> Len(text),
   entities_processed |-> 0,
   entities_by_type   |-> EmptyDict,
   pseudonyms_created |-> 1,
   pseudonyms_reused  |-> 0]

InitialStats(text) ==
  [original_length    |-> Len(text),
   entities_processed |-> 0,
   entities_by_type   |-> EmptyDict,
   pseudonyms_created |-> 0,
   pseudonyms_reused  |-> 0]

\* the iteration of the replacement loop from the format preservation on, the
\* pseudonym of the entity being known: run = [text, st, stats, spliced]
\* (spliced: the strings put into the text, in loop order)
SpliceEntity(run, entity, found, reused, preserve_format) ==
  LET pseudonym == PreserveFormat(found, entity.text, preserve_format)
      by_type == run.stats.entities_by_type
  IN  [text    |-> Splice(run.text, entity.start, entity.end, pseudonym),
       st      |-> run.st,
       spliced |-> Append(run.spliced, pseudonym),
       stats   |-> [run.stats EXCEPT
                      !.entities_processed = @ + 1,
                      !.pseudonyms_created = IF reused THEN @ ELSE @ + 1,
                      !.pseudonyms_reused = IF reused THEN @ + 1 ELSE @,
                      !.entities_by_type =
                         Put(by_type, entity.label,
                             IF Has(by_type, entity.label)
                             THEN Get(by_type, entity.label) + 1 ELSE 1)]]

\* one iteration of the replacement loop
ReplaceEntity(run, entity, preserve_format) ==
  LET reused == Has(run.st.rm, entity.text)
      gen == IF reused
             THEN [pseudonym |-> Get(run.st.rm, entity.text), st |-> run.st]
             ELSE GeneratePseudonymOn(run.st, entity.text, entity.label)
  IN  SpliceEntity([run EXCEPT !.st = gen.st], entity, gen.pseudonym, reused,
                   preserve_format)

RECURSIVE ReplaceEntities(_, _, _)
ReplaceEntities(run, entities, preserve_format) ==
  IF entities = << >> THEN run
  ELSE ReplaceEntities(ReplaceEntity(run, Head(entities), preserve_format),
                       Tail(entities), preserve_format)

\* pseudonymize_text with a recognizer attached: [text, st, stats, spliced]
PseudonymizeTextOn(st, text, ents, entity_types_to_mask, preserve_format) ==
  LET entities == FilterEntities(ExtractEntities(text, ents), entity_types_to_mask)
      run == ReplaceEntities([text |-> text, st |-> st, spliced |-> << >>,
                              stats |-> InitialStats(text)],
                             entities, preserve_format)
  IN  [run EXCEPT !.stats = [original_length    |-> run.stats.original_length,
                             entities_processed |-> run.stats.entities_processed,
                             entities_by_type   |-> run.stats.entities_by_type,
                             pseudonyms_created |-> run.stats.pseudonyms_created,
                             pseudonyms_reused  |-> run.stats.pseudonyms_reused,
                             final_length       |-> Len(run.text)]]

(***************************************************************************)
(* depseudonymize_text                                                     *)
(***************************************************************************)
RECURSIVE InsertByLenDesc(_, _)
InsertByLenDesc(sorted, k) ==
  IF sorted = << >> THEN <<k>>
  ELSE IF Len(Head(sorted)) >= Len(k)
       THEN <<Head(sorted)>> \o InsertByLenDesc(Tail(sorted), k)
       ELSE <<k>> \o sorted

\* variant: the keys are left in dict order
SortByLenDesc_Unsorted(keys) == keys

RECURSIVE SortByLenDesc(_)
\* sorted(keys, key=len, reverse=True): longest first, equal lengths in dict order
SortByLenDesc(keys) ==
  IF keys = << >> THEN << >>
  ELSE LET n == Len(keys)
       IN  InsertByLenDesc(SortByLenDesc(SubSeq(keys, 1, n - 1)), keys[n])

SortedPseudonyms(corresp_map) ==
  SortByLenDesc([i \in 1..Len(corresp_map) |-> corresp_map[i][1]])

RECURSIVE ReplacePseudonyms(_, _, _)
\* the replacement loop over sorted_pseudonyms
ReplacePseudonyms(text, corresp_map, sorted_pseudonyms) ==
  IF sorted_pseudonyms = << >> THEN text
  ELSE LET pseudonym == Head(sorted_pseudonyms)
           replaced == IF StrCount(text, pseudonym) > 0
                       THEN StrReplace(text, pseudonym, Get(corresp_map, pseudonym))
                       ELSE text
       IN  ReplacePseudonyms(replaced, corresp_map, Tail(sorted_pseudonyms))

\* correspondence_map or self.correspondence_map; passed = [given, map], given
\* FALSE for None
CorrespMapUsed(passed, cm) ==
  IF passed.given /\ passed.map # EmptyDict THEN passed.map ELSE cm

\* the text depseudonymize_text returns for a non-empty corresp_map
DepseudonymizeWith(corresp_map, pseudonymized_text) ==
  ReplacePseudonyms(pseudonymized_text, corresp_map, SortedPseudonyms(corresp_map))

(***************************************************************************)
(* The correspondence file: a JSON document, its objects as member lists.  *)
(* metadata.creation_date, model_used and session_id are written but only  *)
(* printed on load; they are left out.                                     *)
(***************************************************************************)
JObject(d) == [kind |-> "object", members |-> d]
JNull == [kind |-> "null", members |-> << >>]

\* a pseudonymized text the user keeps, and the text it was made from
NoText == [source |-> "", text |-> ""]

\* disk: exists and json say whether the file opens and parses, data is its
\* content.  Not read by the program: by_save (the file was written by
\* save_correspondence_file), saved (the maps it was written from) and kept (the
\* pseudonymized text stored beside it).
NoFile ==
  [exists |-> FALSE, json |-> FALSE, by_save |-> FALSE, data |-> << >>,
   saved |-> [cm |-> EmptyDict, ec |-> EmptyDict], kept |-> NoText]

\* correspondence_data of save_correspondence_file
CorrespondenceData(st, additional_info) ==
  [metadata |-> [total_pseudonyms |-> Len(st.cm),
                 entity_types |-> [i \in 1..Len(st.ec) |-> st.ec[i][1]]],
   correspondences  |-> JObject(st.cm),
   entity_counters  |-> JObject(st.ec),
   additional_info  |-> additional_info]

\* the file json.dump writes
WrittenFile(st, additional_info, kept) ==
  [exists |-> TRUE, json |-> TRUE, by_save |-> TRUE,
   data |-> CorrespondenceData(st, additional_info),
   saved |-> [cm |-> st.cm, ec |-> st.ec], kept |-> kept]

\* correspondence_data.get(field, {}) as a Python value [py, d]: a dict, or None
\* for a JSON null
GetField(data, field) ==
  IF field \in DOMAIN data
  THEN IF data[field].kind = "object"
       THEN [py |-> "dict", d |-> DictOf(data[field].members)]
       ELSE [py |-> "None", d |-> EmptyDict]
  ELSE [py |-> "dict", d |-> EmptyDict]

\* variant: load_correspondence_file without the rebuilding of reverse_map
LoadOn_StaleReverse(cur, file) ==
  IF ~file.exists \/ ~file.json
  THEN [ok |-> FALSE, cm |-> cur.cm, rm |-> cur.rm, ec |-> cur.ec]
  ELSE LET cm == GetField(file.data, "correspondences")
           ec == GetField(file.data, "entity_counters").d
       IN  [ok |-> cm.py = "dict", cm |-> cm, rm |-> cur.rm, ec |-> ec]

\* variant: load_correspondence_file without the restoring of entity_counters
LoadOn_StaleCounters(cur, file) ==
  IF ~file.exists \/ ~file.json
  THEN [ok |-> FALSE, cm |-> cur.cm, rm |-> cur.rm, ec |-> cur.ec]
  ELSE LET cm == GetField(file.data, "correspondences")
       IN  IF cm.py = "dict"
           THEN [ok |-> TRUE, cm |-> cm, rm |-> Inverted(cm.d), ec |-> cur.ec]
           ELSE [ok |-> FALSE, cm |-> cm, rm |-> cur.rm, ec |-> cur.ec]

\* load_correspondence_file on store [cm, rm, ec] (cm a Python value [py, d]):
\* [ok, cm, rm, ec], ok its return value
LoadOn(cur, file) ==
  IF ~file.exists \/ ~file.json
  THEN [ok |-> FALSE, cm |-> cur.cm, rm |-> cur.rm, ec |-> cur.ec]
  ELSE LET cm == GetField(file.data, "correspondences")
           ec == GetField(file.data, "entity_counters").d
       IN  IF cm.py = "dict"
           THEN [ok |-> TRUE, cm |-> cm, rm |-> Inverted(cm.d), ec |-> ec]
           ELSE [ok |-> FALSE, cm |-> cm, rm |-> cur.rm, ec |-> ec]

(***************************************************************************)
(* The documents of a session and what the recognizer returns for them     *)
(* (spaCy entities never overlap).                                         *)
(***************************************************************************)
Span(start, end, label) == [start |-> start, end |-> end, label |-> label]

DocPeople ==
  [text |-> "Alice met Bob, Bob",
   ents |-> <<Span(0, 5, "PERSONNE"), Span(10, 13, "PERSONNE"),
              Span(15, 18, "PERSONNE")>>]
DocScenario ==
  [text |-> "M. Durand, CODE-7781, travaille chez ACME.",
   ents |-> <<Span(0, 9, "PERSONNE"), Span(11, 20, "CODE")>>]
DocCaps == [text |-> "ACME CORP", ents |-> <<Span(0, 9, "ORGANISATION")>>]
DocLower == [text |-> "acme corp", ents |-> <<Span(0, 9, "ORGANISATION")>>]
DocGeneric ==
  [text |-> "x@y.fr, 12/05",
   ents |-> <<Span(0, 6, "EMAIL"), Span(8, 13, "DATE")>>]
\* two codes whose hashes start with the same 8 hex characters
DocCodes ==
  [text |-> "CODE-2830, CODE-32730",
   ents |-> <<Span(0, 9, "CODE"), Span(11, 21, "CODE")>>]

\* the document sets a session works on
Corpora == {{DocPeople}, {DocScenario}, {DocCaps, DocLower}, {DocGeneric}}

Labels(doc) == { doc.ents[i].label : i \in 1..Len(doc.ents) }
\* entity_types_to_mask: none, or one of the document's labels
Masks(doc) == {{}} \cup { {l} : l \in Labels(doc) }
\* the (original_entity, entity_type) pairs generate_pseudonym is called with
\* directly: an entity of a document with its label, or with 'UNKNOWN'
\* (pseudonymize_document)
DirectCalls(docs) ==
  UNION { UNION { { <<Slice(doc.text, doc.ents[i].start, doc.ents[i].end), t>> :
                      t \in {doc.ents[i].label, "UNKNOWN"} } :
                  i \in 1..Len(doc.ents) } :
          doc \in docs }

(***************************************************************************)
(* State                                                                   *)
(***************************************************************************)
VARIABLES
  nlp,                 \* "None", "ner" (a model with a NER pipe) or "no_ner"
  correspondence_map,  \* [py, d]: a dict d {pseudonym: original}, or None
  reverse_map,         \* {original: pseudonym}
  entity_counters,     \* {entity_type: counter}
  disk,                \* the correspondence file at the path save and load use
  corpus,              \* the documents of the session
  ret,                 \* the last call: [op, args, raised, value]
  calls,               \* the generate_pseudonym calls in progress, one per caller
  training             \* the training of a model by the application (main.py)

vars ==
  <<nlp, correspondence_map, reverse_map, entity_counters, disk, corpus, ret, calls,
    training>>

\* the calls that would take a counter beyond MaxCounter are left out (a
\* correspondence_map that is None lets the counters grow without end)
MaxCounter == 3
CountersWithin(ec) == \A i \in 1..Len(ec) : ec[i][2] <= MaxCounter

PyDict(d) == [py |-> "dict", d |-> d]
PyNone == [py |-> "None", d |-> EmptyDict]

\* the store as the operators above take it
Store == [cm |-> correspondence_map.d, rm |-> reverse_map, ec |-> entity_counters]
EmptyStore == [cm |-> EmptyDict, rm |-> EmptyDict, ec |-> EmptyDict]

Call(op, args, raised, value) ==
  [op |-> op, args |-> args, raised |-> raised, value |-> value]

\* the callers of one instance
Callers == {"first", "second"}

\* a caller's call of generate_pseudonym: pc the statement it is at ("idle":
\* no call), its arguments and its local variables
IdleFrame ==
  [pc |-> "idle", original_entity |-> "", entity_type |-> "",
   pseudonym |-> "", base_pseudonym |-> "", counter |-> 0]

\* the for loop of a pseudonymize_text or depseudonymize_text call in progress
\* ("none": no such call): the arguments of the call, the elements still to
\* iterate over, the local variables (run), and whether the iteration waits for
\* the generate_pseudonym call it made.  Not read: handled (the elements an
\* iteration was made for).
NoLoop ==
  [op |-> "none", args |-> << >>, todo |-> << >>, run |-> << >>,
   waiting |-> FALSE, handled |-> << >>]

\* calls = [serialised, frame, loop]: serialised says whether the callers call
\* under mutual exclusion (not read by the program); no call in progress
NoCalls ==
  [serialised |-> TRUE, frame |-> [c \in Callers |-> IdleFrame], loop |-> NoLoop]

\* PseudonymizationApp.__init__: training_in_progress = False, model_trainer =
\* None (0; the n-th SpacyModelTrainer created is n), the train button enabled.
\* ui: where the UI thread is in start_training ("idle": in the event loop);
\* after: the set_training_state calls handed to root.after, in order; worker:
\* the threads started on _run_training, each with the statement it is at.
\* Not read: requests (the start_training calls made), last (the outcome of the
\* last one), trainer (the model_trainer a worker trained with).
NoTraining ==
  [training_in_progress |-> FALSE, model_trainer |-> 0, train_button |-> "normal",
   ui |-> "idle", after |-> << >>, worker |-> << >>, requests |-> 0, last |-> "none"]

\* TextPseudonymizer(): __init__ without model_path
Init ==
  /\ nlp = "None"
  /\ correspondence_map = PyDict(EmptyDict)
  /\ reverse_map = EmptyDict
  /\ entity_counters = EmptyDict
  /\ disk = NoFile
  /\ corpus \in Corpora
  /\ ret = Call("__init__", << >>, FALSE, << >>)
  /\ calls = NoCalls
  /\ training = NoTraining

\* a new TextPseudonymizer() replaces the instance (a new process, or main.py
\* creating it on demand); the file stays
NewInstance ==
  /\ ret.op # "__init__"
  /\ nlp' = "None"
  /\ correspondence_map' = PyDict(EmptyDict)
  /\ reverse_map' = EmptyDict
  /\ entity_counters' = EmptyDict
  /\ ret' = Call("__init__", << >>, FALSE, << >>)
  /\ UNCHANGED <<disk, corpus, training, calls>>

\* load_model: spacy.load raises ("error"), or gives a model with or without a
\* NER pipe; nlp is assigned before the pipe is looked for
LoadModel(loaded) ==
  /\ nlp' = IF loaded = "error" THEN nlp ELSE loaded
  /\ ret' = Call("load_model", loaded, FALSE, loaded = "ner")
  /\ UNCHANGED <<correspondence_map, reverse_map, entity_counters, disk, corpus, training, calls>>

\* generate_pseudonym(original_entity, entity_type).  On a correspondence_map
\* that is None the membership test of the uniqueness loop raises TypeError,
\* after the counter was advanced.  Not read: resumed (the call follows a
\* successful load into a new instance).
GeneratePseudonym(original_entity, entity_type) ==
  LET known == Has(reverse_map, original_entity)
      broken == ~known /\ correspondence_map.py = "None"
      gen == IF broken
             THEN [pseudonym |-> "",
                   st |-> [Store EXCEPT !.ec = CountersAfter(@, entity_type)]]
             ELSE GeneratePseudonymOn(Store, original_entity, entity_type)
      \* value.reused: the call returned at the reverse_map lookup
  IN  /\ CountersWithin(gen.st.ec)
      /\ correspondence_map' = [correspondence_map EXCEPT !.d = gen.st.cm]
      /\ reverse_map' = gen.st.rm
      /\ entity_counters' = gen.st.ec
      /\ ret' = Call("generate_pseudonym",
                     [original_entity |-> original_entity,
                      entity_type |-> entity_type,
                      resumed |-> (/\ ret.op = "load_correspondence_file"
                                   /\ ret.value /\ ret.args.fresh)],
                     broken, [pseudonym |-> gen.pseudonym, reused |-> known])
      /\ UNCHANGED <<nlp, disk, corpus, training, calls>>

\* variant: the test for an attached model never fires
ModelMissing_Never == FALSE

\* if not self.nlp
ModelMissing == nlp = "None"

\* the spans the attached model finds in doc
Recognized(doc) == IF nlp = "ner" THEN doc.ents ELSE << >>

\* pseudonymize_text(text, entity_types_to_mask, preserve_format).  Without a
\* model it raises ValueError.  On a correspondence_map that is None it raises
\* at the first entity that has no pseudonym yet.
PseudonymizeText(doc, entity_types_to_mask, preserve_format) ==
  LET args == [text |-> doc.text,
               entity_types_to_mask |-> entity_types_to_mask,
               preserve_format |-> preserve_format]
      entities == FilterEntities(ExtractEntities(doc.text, Recognized(doc)),
                                 entity_types_to_mask)
      unknown == SelectSeq(entities, LAMBDA e : ~Has(reverse_map, e.text))
      broken == correspondence_map.py = "None" /\ unknown # << >>
      run == PseudonymizeTextOn(Store, doc.text, Recognized(doc),
                                entity_types_to_mask, preserve_format)
  IN  IF ModelMissing
      THEN /\ ret' = Call("pseudonymize_text", args, TRUE, << >>)
           /\ UNCHANGED <<nlp, correspondence_map, reverse_map, entity_counters,
                          disk, corpus, training, calls>>
      ELSE IF broken
      THEN /\ CountersWithin(CountersAfter(entity_counters, Head(unknown).label))
           /\ entity_counters' = CountersAfter(entity_counters, Head(unknown).label)
           /\ ret' = Call("pseudonymize_text", args, TRUE, << >>)
           /\ UNCHANGED <<nlp, correspondence_map, reverse_map, disk, corpus, training, calls>>
      ELSE /\ CountersWithin(run.st.ec)
           /\ correspondence_map' = [correspondence_map EXCEPT !.d = run.st.cm]
           /\ reverse_map' = run.st.rm
           /\ entity_counters' = run.st.ec
           /\ ret' = Call("pseudonymize_text", args, FALSE,
                          [text |-> run.text, stats |-> run.stats,
                           spliced |-> run.spliced])
           /\ UNCHANGED <<nlp, disk, corpus, training, calls>>

RECURSIVE PreviewEntities(_, _, _)
\* the loop of preview_pseudonymization over entities
PreviewEntities(preview, entities, rm) ==
  IF entities = << >> THEN preview
  ELSE LET entity == Head(entities)
           by_type == preview.entities_by_type
           known == Has(rm, entity.text)
       IN  PreviewEntities(
             [preview EXCEPT
                !.entities_by_type =
                   Put(by_type, entity.label,
                       IF Has(by_type, entity.label)
                       THEN Get(by_type, entity.label) + 1 ELSE 1),
                !.would_create_pseudonyms = IF known THEN @ ELSE @ + 1,
                !.would_reuse_pseudonyms = IF known THEN @ + 1 ELSE @],
             Tail(entities), rm)

\* variant: the preview is obtained by pseudonymizing the text
PreviewPseudonymization_ByPseudonymizing(doc, entity_types_to_mask) ==
  LET args == [text |-> doc.text, entity_types_to_mask |-> entity_types_to_mask]
      run == PseudonymizeTextOn(Store, doc.text, Recognized(doc),
                                entity_types_to_mask, TRUE)
  IN  /\ ~ModelMissing
      /\ CountersWithin(run.st.ec)
      /\ correspondence_map' = [correspondence_map EXCEPT !.d = run.st.cm]
      /\ reverse_map' = run.st.rm
      /\ entity_counters' = run.st.ec
      /\ ret' = Call("preview_pseudonymization", args, FALSE,
                     [total_entities |-> run.stats.entities_processed,
                      entities_by_type |-> run.stats.entities_by_type,
                      would_create_pseudonyms |-> run.stats.pseudonyms_created,
                      would_reuse_pseudonyms |-> run.stats.pseudonyms_reused])
      /\ UNCHANGED <<nlp, disk, corpus, training, calls>>

\* preview_pseudonymization(text, entity_types_to_mask); entities_details is
\* left out of the value
PreviewPseudonymization(doc, entity_types_to_mask) ==
  LET args == [text |-> doc.text, entity_types_to_mask |-> entity_types_to_mask]
      entities == FilterEntities(ExtractEntities(doc.text, Recognized(doc)),
                                 entity_types_to_mask)
      preview == PreviewEntities([total_entities |-> Len(entities),
                                  entities_by_type |-> EmptyDict,
                                  would_create_pseudonyms |-> 0,
                                  would_reuse_pseudonyms |-> 0],
                                 entities, reverse_map)
  IN  /\ ret' = IF ModelMissing
                THEN Call("preview_pseudonymization", args, TRUE, << >>)
                ELSE Call("preview_pseudonymization", args, FALSE, preview)
      /\ UNCHANGED <<nlp, correspondence_map, reverse_map, entity_counters, disk,
                     corpus, training, calls>>

\* the pseudonymized text the last call made, if it made one
JustMade ==
  IF ret.op = "pseudonymize_text" /\ ~ret.raised
  THEN [source |-> ret.args.text, text |-> ret.value.text]
  ELSE NoText

\* the pseudonymized text the user has at hand: the one just made, else the one
\* kept beside the correspondence file
AtHand == IF JustMade # NoText THEN JustMade ELSE disk.kept

\* the maps a caller may pass to depseudonymize_text: none, an empty one, or the
\* correspondences of the file
PassedMaps ==
  {[given |-> FALSE, map |-> EmptyDict], [given |-> TRUE, map |-> EmptyDict]}
  \cup (IF disk.by_save
        THEN {[given |-> TRUE, map |-> disk.data.correspondences.members]}
        ELSE {})

\* depseudonymize_text(pseudonymized_text, correspondence_map = passed); held is
\* the text at hand.  Not read: held.source, and resumed (the call follows a
\* successful load into a new instance)
DepseudonymizeText(held, passed) ==
  LET corresp_map == CorrespMapUsed(passed, correspondence_map.d)
      raised == corresp_map = EmptyDict
  IN  /\ ret' = Call("depseudonymize_text",
                     [pseudonymized_text |-> held.text, passed |-> passed,
                      source |-> held.source,
                      resumed |-> (/\ ret.op = "load_correspondence_file"
                                   /\ ret.value /\ ret.args.fresh)],
                     raised,
                     IF raised THEN ""
                     ELSE DepseudonymizeWith(corresp_map, held.text))
      /\ UNCHANGED <<nlp, correspondence_map, reverse_map, entity_counters, disk,
                     corpus, training, calls>>

\* save_correspondence_file(filepath); written: whether the file can be written.
\* A text is kept beside the file when the call follows its pseudonymization.
SaveCorrespondenceFile(written) ==
  LET empty == correspondence_map.d = EmptyDict
  IN  /\ disk' = IF ~empty /\ written
                 THEN WrittenFile(Store, EmptyDict, JustMade)
                 ELSE disk
      /\ ret' = Call("save_correspondence_file", written, empty \/ ~written, << >>)
      /\ UNCHANGED <<nlp, correspondence_map, reverse_map, entity_counters, corpus, training,
                     calls>>

\* load_correspondence_file(filepath)
LoadCorrespondenceFile ==
  LET loaded == LoadOn([cm |-> correspondence_map, rm |-> reverse_map,
                        ec |-> entity_counters], disk)
  IN  /\ correspondence_map' = loaded.cm
      /\ reverse_map' = loaded.rm
      /\ entity_counters' = loaded.ec
      /\ ret' = Call("load_correspondence_file", [fresh |-> Store = EmptyStore],
                     FALSE, loaded.ok)
      /\ UNCHANGED <<nlp, disk, corpus, training, calls>>

\* reset_correspondences; None.clear() raises before anything is cleared
ResetCorrespondences ==
  LET raised == correspondence_map.py = "None"
  IN  /\ correspondence_map' = IF raised THEN correspondence_map ELSE PyDict(EmptyDict)
      /\ reverse_map' = IF raised THEN reverse_map ELSE EmptyDict
      /\ entity_counters' = IF raised THEN entity_counters ELSE EmptyDict
      /\ ret' = Call("reset_correspondences", << >>, raised, << >>)
      /\ UNCHANGED <<nlp, disk, corpus, training, calls>>

\* list(self.pseudonym_strategies.keys())
available_strategies == <<"PERSONNE", "ETABLISSEMENT", "ORGANISATION", "LIEU", "CODE">>

RECURSIVE TypeOfPrefix(_, _)
\* the first entity type of etypes whose prefix pseudonym starts with, else
\* 'UNKNOWN'
TypeOfPrefix(pseudonym, etypes) ==
  IF etypes = << >> THEN "UNKNOWN"
  ELSE IF StartsAt(pseudonym, pseudonym_strategies(Head(etypes)).prefix, 1)
       THEN Head(etypes)
       ELSE TypeOfPrefix(pseudonym, Tail(etypes))

RECURSIVE PseudonymsByType(_)
\* entity_stats of get_pseudonymization_summary
PseudonymsByType(cm) ==
  IF cm = << >> THEN EmptyDict
  ELSE LET n == Len(cm)
           entity_stats == PseudonymsByType(SubSeq(cm, 1, n - 1))
           entity_type == TypeOfPrefix(cm[n][1], available_strategies)
       IN  Put(entity_stats, entity_type,
               IF Has(entity_stats, entity_type)
               THEN Get(entity_stats, entity_type) + 1 ELSE 1)

\* get_pseudonymization_summary(); model_path is left out of the value.
\* len(None) raises TypeError.
GetPseudonymizationSummary ==
  LET raised == correspondence_map.py = "None"
      summary == [model_loaded |-> nlp # "None",
                  total_pseudonyms |-> Len(correspondence_map.d),
                  entity_types_processed |->
                    [i \in 1..Len(entity_counters) |-> entity_counters[i][1]],
                  entity_counters |-> entity_counters,
                  available_strategies |-> available_strategies,
                  pseudonyms_by_type |-> PseudonymsByType(correspondence_map.d)]
  IN  /\ ret' = IF raised
                THEN Call("get_pseudonymization_summary", << >>, TRUE, << >>)
                ELSE Call("get_pseudonymization_summary", << >>, FALSE, summary)
      /\ UNCHANGED <<nlp, correspondence_map, reverse_map, entity_counters, disk,
                     corpus, training, calls>>

(***************************************************************************)
(* Spec: one instance used in memory, on every document set, with every    *)
(* argument of the calls.                                                  *)
(***************************************************************************)
Next ==
  \/ NewInstance
  \/ \E loaded \in {"ner", "no_ner", "error"} : LoadModel(loaded)
  \/ \E c \in DirectCalls(corpus) : GeneratePseudonym(c[1], c[2])
  \/ \E doc \in corpus : \E mask \in Masks(doc), preserve_format \in BOOLEAN :
       PseudonymizeText(doc, mask, preserve_format)
  \/ \E doc \in corpus : \E mask \in Masks(doc) : PreviewPseudonymization(doc, mask)
  \/ \E passed \in PassedMaps : DepseudonymizeText(AtHand, passed)
  \/ ResetCorrespondences

Spec == Init /\ [][Next]_vars

(***************************************************************************)
(* SpecFile: sessions that save and load the correspondence file.  The     *)
(* instances are built with a model path (__init__ then loads the model);  *)
(* texts are pseudonymized with the default arguments.                     *)
(***************************************************************************)
FileCorpora == {{DocScenario}, {DocGeneric}, {DocPeople}, {DocCodes}}

\* the entities of the documents with their labels
LabelledCalls(docs) == { c \in DirectCalls(docs) : c[2] # "UNKNOWN" }

\* TextPseudonymizer(model_path), the model loading
InitWithModel ==
  /\ nlp = "ner"
  /\ correspondence_map = PyDict(EmptyDict)
  /\ reverse_map = EmptyDict
  /\ entity_counters = EmptyDict
  /\ disk = NoFile
  /\ corpus \in FileCorpora
  /\ ret = Call("__init__", << >>, FALSE, << >>)
  /\ calls = NoCalls
  /\ training = NoTraining

NewInstanceWithModel ==
  /\ ret.op # "__init__"
  /\ nlp' = "ner"
  /\ correspondence_map' = PyDict(EmptyDict)
  /\ reverse_map' = EmptyDict
  /\ entity_counters' = EmptyDict
  /\ ret' = Call("__init__", << >>, FALSE, << >>)
  /\ UNCHANGED <<disk, corpus, training, calls>>

NextFile ==
  \/ NewInstanceWithModel
  \/ \E c \in LabelledCalls(corpus) : GeneratePseudonym(c[1], c[2])
  \/ \E doc \in corpus : PseudonymizeText(doc, {}, TRUE)
  \/ \E passed \in PassedMaps : DepseudonymizeText(AtHand, passed)
  \/ \E written \in BOOLEAN : SaveCorrespondenceFile(written)
  \/ LoadCorrespondenceFile
  \/ ResetCorrespondences

SpecFile == InitWithModel /\ [][NextFile]_vars

(***************************************************************************)
(* SpecAnyFile: sessions that load files save_correspondence_file did not  *)
(* write.                                                                  *)
(***************************************************************************)
FileData(correspondences, counters) ==
  [metadata |-> [total_pseudonyms |-> Len(correspondences),
                 entity_types |-> [i \in 1..Len(counters) |-> counters[i][1]]],
   correspondences |-> JObject(correspondences),
   entity_counters |-> JObject(counters),
   additional_info |-> EmptyDict]

\* a JSON object without one of its members
Without(data, field) == [f \in DOMAIN data \ {field} |-> data[f]]

ForeignFile(json, data) ==
  [exists |-> TRUE, json |-> json, by_save |-> FALSE, data |-> data,
   saved |-> [cm |-> EmptyDict, ec |-> EmptyDict], kept |-> NoText]

\* the file of another session
OtherData == FileData(<<<<"PERS_0001", "Mme Martin">>>>, <<<<"PERSONNE", 1>>>>)
\* counters below the pseudonyms the file holds
LowCountersData ==
  FileData(<<<<"PERS_0001", "Mme Martin">>, <<"PERS_0001_1", "M. Dupont">>>>,
           EmptyDict)
\* two pseudonyms of one original
DuplicateData ==
  FileData(<<<<"PERS_0001", "M. Durand">>, <<"PERS_0002", "M. Durand">>>>,
           <<<<"PERSONNE", 2>>>>)
\* "correspondences": null
NullData == [OtherData EXCEPT !.correspondences = JNull]

RequiredFields == {"metadata", "correspondences", "entity_counters"}

ForeignFiles ==
  {ForeignFile(TRUE, d) : d \in {OtherData, LowCountersData, DuplicateData, NullData}}
  \cup {ForeignFile(TRUE, Without(OtherData, f)) : f \in RequiredFields}
  \cup {ForeignFile(FALSE, << >>)}

\* somebody puts a file at the path
PutFile(file) ==
  /\ disk' = file
  /\ UNCHANGED <<nlp, correspondence_map, reverse_map, entity_counters, corpus, training, ret,
                 calls>>

AnyFileCorpora == {{DocScenario}}

InitAnyFile == InitWithModel /\ corpus \in AnyFileCorpora

NextAnyFile ==
  \/ NewInstanceWithModel
  \/ \E c \in LabelledCalls(corpus) : GeneratePseudonym(c[1], c[2])
  \/ \E doc \in corpus : PseudonymizeText(doc, {}, TRUE)
  \/ \E passed \in PassedMaps : DepseudonymizeText(AtHand, passed)
  \/ LoadCorrespondenceFile
  \/ ResetCorrespondences
  \/ \E file \in ForeignFiles : PutFile(file)

SpecAnyFile == InitAnyFile /\ [][NextAnyFile]_vars

(***************************************************************************)
(* SpecSession: a session that uses every operation of the instance, on a  *)
(* sentence with entities and on one without.                              *)
(***************************************************************************)
DocPlain == [text |-> "Bonjour.", ents |-> << >>]

\* a sentence that cites a code of the form the pseudonyms have
DocNested ==
  [text |-> "BOB, PERS_0001",
   ents |-> <<Span(0, 3, "PERSONNE"), Span(5, 14, "CODE")>>]

SessionCorpora == {{DocScenario, DocPlain}, {DocNested}}

\* entity_types_to_mask: none, one of the document's labels, or a label the
\* document does not have
SessionMasks(doc) == Masks(doc) \cup {{"LIEU"}}

InitSession ==
  /\ nlp = "ner"
  /\ correspondence_map = PyDict(EmptyDict)
  /\ reverse_map = EmptyDict
  /\ entity_counters = EmptyDict
  /\ disk = NoFile
  /\ corpus \in SessionCorpora
  /\ ret = Call("__init__", << >>, FALSE, << >>)
  /\ calls = NoCalls
  /\ training = NoTraining

NextSession ==
  \/ NewInstanceWithModel
  \/ \E c \in LabelledCalls(corpus) : GeneratePseudonym(c[1], c[2])
  \/ \E doc \in corpus : \E mask \in SessionMasks(doc) :
       PseudonymizeText(doc, mask, TRUE)
  \/ \E doc \in corpus : \E mask \in SessionMasks(doc) :
       PreviewPseudonymization(doc, mask)
  \/ GetPseudonymizationSummary
  \/ \E passed \in PassedMaps : DepseudonymizeText(AtHand, passed)
  \/ \E written \in BOOLEAN : SaveCorrespondenceFile(written)
  \/ LoadCorrespondenceFile
  \/ ResetCorrespondences

SpecSession == InitSession /\ [][NextSession]_vars

(***************************************************************************)
(* SpecConcurrent: two callers of generate_pseudonym on one instance, a    *)
(* step being one statement of one caller.  When calls.serialised, a call  *)
(* starts only while no other call is in progress.                         *)
(***************************************************************************)
AllIdle == \A c \in Callers : calls.frame[c].pc = "idle"

\* caller c is at statement pc, its frame f
At(c, pc) == calls.frame[c].pc = pc
SetFrame(c, f) == calls' = [calls EXCEPT !.frame[c] = f]

\* caller c calls generate_pseudonym(original_entity, entity_type)
CallGenerate(c, original_entity, entity_type) ==
  /\ At(c, "idle")
  /\ calls.serialised => AllIdle
  /\ SetFrame(c, [IdleFrame EXCEPT !.pc = "lookup",
                                   !.original_entity = original_entity,
                                   !.entity_type = entity_type])
  /\ UNCHANGED <<nlp, correspondence_map, reverse_map, entity_counters, disk, corpus, training,
                 ret>>

\* if original_entity in self.reverse_map: return self.reverse_map[...]
StmtLookup(c) ==
  LET f == calls.frame[c]
      known == Has(reverse_map, f.original_entity)
  IN  /\ At(c, "lookup")
      /\ SetFrame(c, IF known THEN IdleFrame
                     ELSE [f EXCEPT !.pc = IF ConfigOf(f.entity_type).type = "structured"
                                           THEN "counter" ELSE "format"])
      /\ ret' = IF known
                THEN Call("generate_pseudonym",
                          [original_entity |-> f.original_entity,
                           entity_type |-> f.entity_type],
                          FALSE,
                          [pseudonym |-> Get(reverse_map, f.original_entity),
                           reused |-> TRUE])
                ELSE ret
      /\ UNCHANGED <<nlp, correspondence_map, reverse_map, entity_counters, disk,
                     corpus, training>>

\* the structured branch sets or advances entity_counters[entity_type]
StmtCounter(c) ==
  LET f == calls.frame[c]
  IN  /\ At(c, "counter")
      /\ CountersWithin(NextCounter(entity_counters, f.entity_type))
      /\ entity_counters' = NextCounter(entity_counters, f.entity_type)
      /\ SetFrame(c, [f EXCEPT !.pc = "format"])
      /\ UNCHANGED <<nlp, correspondence_map, reverse_map, disk, corpus, training, ret>>

\* pseudonym = config['format'].format(...), reading the counter as it is now;
\* base_pseudonym = pseudonym; counter = 1
StmtFormat(c) ==
  LET f == calls.frame[c]
      pseudonym == Candidate(f.original_entity, f.entity_type, entity_counters)
  IN  /\ At(c, "format")
      /\ SetFrame(c, [f EXCEPT !.pc = "unique", !.pseudonym = pseudonym,
                               !.base_pseudonym = pseudonym, !.counter = 1])
      /\ UNCHANGED <<nlp, correspondence_map, reverse_map, entity_counters, disk,
                     corpus, training, ret>>

\* variant: the loop body leaves pseudonym and counter as they are
StmtUnique_SameCandidate(c) ==
  LET f == calls.frame[c]
  IN  /\ At(c, "unique")
      /\ SetFrame(c, IF Has(correspondence_map.d, f.pseudonym)
                     THEN f
                     ELSE [f EXCEPT !.pc = "record_map"])
      /\ UNCHANGED <<nlp, correspondence_map, reverse_map, entity_counters, disk,
                     corpus, training, ret>>

\* one test of while pseudonym in self.correspondence_map, and the loop body
StmtUnique(c) ==
  LET f == calls.frame[c]
  IN  /\ At(c, "unique")
      /\ SetFrame(c, IF Has(correspondence_map.d, f.pseudonym)
                     THEN [f EXCEPT !.pseudonym =
                                       f.base_pseudonym \o "_" \o Decimal(f.counter),
                                    !.counter = f.counter + 1]
                     ELSE [f EXCEPT !.pc = "record_map"])
      /\ UNCHANGED <<nlp, correspondence_map, reverse_map, entity_counters, disk,
                     corpus, training, ret>>

\* self.correspondence_map[pseudonym] = original_entity
StmtRecordMap(c) ==
  LET f == calls.frame[c]
  IN  /\ At(c, "record_map")
      /\ correspondence_map' =
           [correspondence_map EXCEPT !.d = Put(@, f.pseudonym, f.original_entity)]
      /\ SetFrame(c, [f EXCEPT !.pc = "record_reverse"])
      /\ UNCHANGED <<nlp, reverse_map, entity_counters, disk, corpus, training, ret>>

\* variant: the call returns without the assignment to reverse_map
StmtRecordReverse_Skipped(c) ==
  LET f == calls.frame[c]
  IN  /\ At(c, "record_reverse")
      /\ SetFrame(c, IdleFrame)
      /\ ret' = Call("generate_pseudonym",
                     [original_entity |-> f.original_entity,
                      entity_type |-> f.entity_type],
                     FALSE, [pseudonym |-> f.pseudonym, reused |-> FALSE])
      /\ UNCHANGED <<nlp, correspondence_map, reverse_map, entity_counters, disk,
                     corpus, training>>

\* self.reverse_map[original_entity] = pseudonym; return pseudonym
StmtRecordReverse(c) ==
  LET f == calls.frame[c]
  IN  /\ At(c, "record_reverse")
      /\ reverse_map' = Put(reverse_map, f.original_entity, f.pseudonym)
      /\ SetFrame(c, IdleFrame)
      /\ ret' = Call("generate_pseudonym",
                     [original_entity |-> f.original_entity,
                      entity_type |-> f.entity_type],
                     FALSE, [pseudonym |-> f.pseudonym, reused |-> FALSE])
      /\ UNCHANGED <<nlp, correspondence_map, entity_counters, disk, corpus, training>>

ConcurrentCorpora == {{DocPeople}, {DocGeneric}}

InitConcurrent ==
  /\ nlp = "None"
  /\ correspondence_map = PyDict(EmptyDict)
  /\ reverse_map = EmptyDict
  /\ entity_counters = EmptyDict
  /\ disk = NoFile
  /\ corpus \in ConcurrentCorpora
  /\ ret = Call("__init__", << >>, FALSE, << >>)
  /\ calls \in {[NoCalls EXCEPT !.serialised = b] : b \in BOOLEAN}
  /\ training = NoTraining

NextConcurrent ==
  \/ \E c \in Callers : \E call \in LabelledCalls(corpus) :
       CallGenerate(c, call[1], call[2])
  \/ \E c \in Callers : StmtLookup(c)
  \/ \E c \in Callers : StmtCounter(c)
  \/ \E c \in Callers : StmtFormat(c)
  \/ \E c \in Callers : StmtUnique(c)
  \/ \E c \in Callers : StmtRecordMap(c)
  \/ \E c \in Callers : StmtRecordReverse(c)

SpecConcurrent == InitConcurrent /\ [][NextConcurrent]_vars

(***************************************************************************)
(* SpecLoops: one caller; a step is one statement of generate_pseudonym or *)
(* one iteration of the for loop of pseudonymize_text or                   *)
(* depseudonymize_text.  The calls are made with the default arguments.    *)
(* The caller's thread keeps running: a call in progress takes its next    *)
(* step (weak fairness on the steps of a call, none on the calls).         *)
(***************************************************************************)
Caller == "first"

InLoop(op) == calls.loop.op = op
NoCallInProgress == AllIdle /\ InLoop("none")

\* generate_pseudonym called directly
CallGenerateAlone(original_entity, entity_type) ==
  /\ NoCallInProgress
  /\ CallGenerate(Caller, original_entity, entity_type)

\* pseudonymize_text(text) up to the for loop: the model check, the entities,
\* the statistics
CallPseudonymizeText(doc) ==
  LET args == [text |-> doc.text, entity_types_to_mask |-> {},
               preserve_format |-> TRUE]
      entities == FilterEntities(ExtractEntities(doc.text, Recognized(doc)), {})
  IN  /\ NoCallInProgress
      /\ IF ModelMissing
         THEN /\ ret' = Call("pseudonymize_text", args, TRUE, << >>)
              /\ UNCHANGED calls
         ELSE /\ calls' = [calls EXCEPT !.loop =
                             [op |-> "pseudonymize_text", args |-> args,
                              todo |-> entities,
                              run |-> [text |-> doc.text, st |-> Store,
                                       spliced |-> << >>,
                                       stats |-> InitialStats(doc.text)],
                              waiting |-> FALSE, handled |-> << >>]]
              /\ UNCHANGED ret
      /\ UNCHANGED <<nlp, correspondence_map, reverse_map, entity_counters, disk,
                     corpus, training>>

\* for entity in entities, the entity having a pseudonym: the whole iteration
ForEntityReused ==
  LET loop == calls.loop
      entity == Head(loop.todo)
  IN  /\ InLoop("pseudonymize_text") /\ ~loop.waiting /\ loop.todo # << >>
      /\ Has(reverse_map, entity.text)
      /\ calls' = [calls EXCEPT !.loop =
                     [loop EXCEPT
                        !.run = SpliceEntity([loop.run EXCEPT !.st = Store], entity,
                                             Get(reverse_map, entity.text), TRUE,
                                             loop.args.preserve_format),
                        !.todo = Tail(loop.todo),
                        !.handled = Append(loop.handled, entity)]]
      /\ UNCHANGED <<nlp, correspondence_map, reverse_map, entity_counters, disk,
                     corpus, training, ret>>

\* for entity in entities, the entity having no pseudonym: the iteration calls
\* generate_pseudonym
ForEntityCreate ==
  LET loop == calls.loop
      entity == Head(loop.todo)
  IN  /\ InLoop("pseudonymize_text") /\ ~loop.waiting /\ loop.todo # << >>
      /\ ~Has(reverse_map, entity.text)
      /\ calls' = [calls EXCEPT
                     !.loop = [loop EXCEPT !.waiting = TRUE],
                     !.frame[Caller] = [IdleFrame EXCEPT
                                          !.pc = "lookup",
                                          !.original_entity = entity.text,
                                          !.entity_type = entity.label]]
      /\ UNCHANGED <<nlp, correspondence_map, reverse_map, entity_counters, disk,
                     corpus, training, ret>>

\* the rest of that iteration, generate_pseudonym having returned
ForEntityCreated ==
  LET loop == calls.loop
      entity == Head(loop.todo)
  IN  /\ InLoop("pseudonymize_text") /\ loop.waiting /\ AllIdle
      /\ calls' = [calls EXCEPT !.loop =
                     [loop EXCEPT
                        !.run = SpliceEntity([loop.run EXCEPT !.st = Store], entity,
                                             ret.value.pseudonym, FALSE,
                                             loop.args.preserve_format),
                        !.todo = Tail(loop.todo),
                        !.waiting = FALSE,
                        !.handled = Append(loop.handled, entity)]]
      /\ UNCHANGED <<nlp, correspondence_map, reverse_map, entity_counters, disk,
                     corpus, training, ret>>

\* the end of the loop: final_length, return
ReturnPseudonymized ==
  LET loop == calls.loop
  IN  /\ InLoop("pseudonymize_text") /\ ~loop.waiting /\ loop.todo = << >>
      /\ calls' = [calls EXCEPT !.loop = NoLoop]
      /\ ret' = Call("pseudonymize_text", loop.args, FALSE,
                     [text |-> loop.run.text,
                      stats |-> [original_length    |-> loop.run.stats.original_length,
                                 entities_processed |-> loop.run.stats.entities_processed,
                                 entities_by_type   |-> loop.run.stats.entities_by_type,
                                 pseudonyms_created |-> loop.run.stats.pseudonyms_created,
                                 pseudonyms_reused  |-> loop.run.stats.pseudonyms_reused,
                                 final_length       |-> Len(loop.run.text)],
                      spliced |-> loop.run.spliced,
                      handled |-> loop.handled])
      /\ UNCHANGED <<nlp, correspondence_map, reverse_map, entity_counters, disk,
                     corpus, training>>

\* depseudonymize_text(pseudonymized_text) up to the for loop: the map, the
\* ValueError, the sorted pseudonyms
CallDepseudonymizeText(held) ==
  LET passed == [given |-> FALSE, map |-> EmptyDict]
      args == [pseudonymized_text |-> held.text, passed |-> passed,
               source |-> held.source, resumed |-> FALSE]
      corresp_map == CorrespMapUsed(passed, correspondence_map.d)
  IN  /\ NoCallInProgress
      /\ IF corresp_map = EmptyDict
         THEN /\ ret' = Call("depseudonymize_text", args, TRUE, "")
              /\ UNCHANGED calls
         ELSE /\ calls' = [calls EXCEPT !.loop =
                             [op |-> "depseudonymize_text", args |-> args,
                              todo |-> SortedPseudonyms(corresp_map),
                              run |-> [text |-> held.text, corresp_map |-> corresp_map],
                              waiting |-> FALSE, handled |-> << >>]]
              /\ UNCHANGED ret
      /\ UNCHANGED <<nlp, correspondence_map, reverse_map, entity_counters, disk,
                     corpus, training>>

\* for pseudonym in sorted_pseudonyms: one iteration
ForPseudonym ==
  LET loop == calls.loop
      pseudonym == Head(loop.todo)
  IN  /\ InLoop("depseudonymize_text") /\ loop.todo # << >>
      /\ calls' = [calls EXCEPT !.loop =
                     [loop EXCEPT
                        !.run.text = ReplacePseudonyms(@, loop.run.corresp_map,
                                                       <<pseudonym>>),
                        !.todo = Tail(loop.todo),
                        !.handled = Append(loop.handled, pseudonym)]]
      /\ UNCHANGED <<nlp, correspondence_map, reverse_map, entity_counters, disk,
                     corpus, training, ret>>

\* the end of the loop: return
ReturnDepseudonymized ==
  LET loop == calls.loop
  IN  /\ InLoop("depseudonymize_text") /\ loop.todo = << >>
      /\ calls' = [calls EXCEPT !.loop = NoLoop]
      /\ ret' = Call("depseudonymize_text", loop.args, FALSE,
                     [text |-> loop.run.text, handled |-> loop.handled])
      /\ UNCHANGED <<nlp, correspondence_map, reverse_map, entity_counters, disk,
                     corpus, training>>

LoopCorpora == {{DocPeople}, {DocGeneric}, {DocCodes}}

InitLoops ==
  /\ nlp = "ner"
  /\ correspondence_map = PyDict(EmptyDict)
  /\ reverse_map = EmptyDict
  /\ entity_counters = EmptyDict
  /\ disk = NoFile
  /\ corpus \in LoopCorpora
  /\ ret = Call("__init__", << >>, FALSE, << >>)
  /\ calls = NoCalls
  /\ training = NoTraining

\* the steps of a call in progress
StepOfCall ==
  \/ StmtLookup(Caller)
  \/ StmtCounter(Caller)
  \/ StmtFormat(Caller)
  \/ StmtUnique(Caller)
  \/ StmtRecordMap(Caller)
  \/ StmtRecordReverse(Caller)
  \/ ForEntityReused
  \/ ForEntityCreate
  \/ ForEntityCreated
  \/ ReturnPseudonymized
  \/ ForPseudonym
  \/ ReturnDepseudonymized

NextLoops ==
  \/ \E call \in LabelledCalls(corpus) : CallGenerateAlone(call[1], call[2])
  \/ \E doc \in corpus : CallPseudonymizeText(doc)
  \/ CallDepseudonymizeText(AtHand)
  \/ StepOfCall

SpecLoops == InitLoops /\ [][NextLoops]_vars /\ WF_vars(StepOfCall)

(***************************************************************************)
(* SpecTraining: the training tab of the application.  The UI thread runs  *)
(* the event loop: a click on the train button calls start_training, a     *)
(* callback handed to root.after is run.  Each worker thread runs          *)
(* _run_training.  A step is one statement (or group of statements that    *)
(* touch no shared variable twice) of one thread.                          *)
(***************************************************************************)
\* the start_training calls of a session
MaxRequests == 3

Training(t) ==
  /\ training' = t
  /\ UNCHANGED <<nlp, correspondence_map, reverse_map, entity_counters, disk, corpus,
                 ret, calls>>

\* the workers that are in _run_training
Running(t) == { w \in 1..Len(t.worker) : t.worker[w].pc # "done" }

\* a click on the train button: start_training up to its try block.  ready: data
\* and custom entities are there
StartTraining(ready) ==
  /\ training.ui = "idle"
  /\ training.train_button = "normal"
  /\ training.requests < MaxRequests
  /\ Training([training EXCEPT
                 !.requests = @ + 1,
                 !.ui = IF ~training.training_in_progress /\ ready
                        THEN "create" ELSE "idle",
                 !.last = IF training.training_in_progress THEN "rejected"
                          ELSE IF ~ready THEN "missing"
                          ELSE "accepted"])

\* self.model_trainer = SpacyModelTrainer(...); load_base_model and
\* add_custom_entities succeed or not
CreateTrainer(loaded) ==
  /\ training.ui = "create"
  /\ Training([training EXCEPT
                 !.model_trainer = training.requests,
                 !.ui = IF loaded THEN "thread" ELSE "idle",
                 !.last = IF loaded THEN @ ELSE "not_loaded"])

\* threading.Thread(target=self._run_training, ...).start()
StartThread ==
  /\ training.ui = "thread"
  /\ Training([training EXCEPT
                 !.worker = Append(@, [pc |-> "flag", trainer |-> 0]),
                 !.ui = "idle",
                 !.last = "started"])

\* the event loop runs the next set_training_state call
RunAfter ==
  /\ training.ui = "idle"
  /\ training.after # << >>
  /\ Training([training EXCEPT
                 !.train_button = IF Head(training.after) THEN "disabled" ELSE "normal",
                 !.after = Tail(@)])

\* _run_training: self.training_in_progress = True
WorkerSetsFlag(w) ==
  /\ w \in 1..Len(training.worker) /\ training.worker[w].pc = "flag"
  /\ Training([training EXCEPT !.training_in_progress = TRUE,
                               !.worker[w].pc = "disable"])

\* self.root.after(0, self.set_training_state, True)
WorkerDisables(w) ==
  /\ w \in 1..Len(training.worker) /\ training.worker[w].pc = "disable"
  /\ Training([training EXCEPT !.after = Append(@, TRUE),
                               !.worker[w].pc = "train"])

\* self.model_trainer.train_model(...), returning or raising
WorkerTrains(w) ==
  /\ w \in 1..Len(training.worker) /\ training.worker[w].pc = "train"
  /\ Training([training EXCEPT !.worker[w].trainer = training.model_trainer,
                               !.worker[w].pc = "finally"])

\* finally: self.training_in_progress = False
WorkerClearsFlag(w) ==
  /\ w \in 1..Len(training.worker) /\ training.worker[w].pc = "finally"
  /\ Training([training EXCEPT !.training_in_progress = FALSE,
                               !.worker[w].pc = "enable"])

\* self.root.after(0, self.set_training_state, False)
WorkerEnables(w) ==
  /\ w \in 1..Len(training.worker) /\ training.worker[w].pc = "enable"
  /\ Training([training EXCEPT !.after = Append(@, FALSE),
                               !.worker[w].pc = "done"])

InitTraining ==
  /\ nlp = "None"
  /\ correspondence_map = PyDict(EmptyDict)
  /\ reverse_map = EmptyDict
  /\ entity_counters = EmptyDict
  /\ disk = NoFile
  /\ corpus = {}
  /\ ret = Call("__init__", << >>, FALSE, << >>)
  /\ calls = NoCalls
  /\ training = NoTraining

NextTraining ==
  \/ \E ready \in BOOLEAN : StartTraining(ready)
  \/ \E loaded \in BOOLEAN : CreateTrainer(loaded)
  \/ StartThread
  \/ RunAfter
  \/ \E w \in 1..MaxRequests : WorkerSetsFlag(w)
  \/ \E w \in 1..MaxRequests : WorkerDisables(w)
  \/ \E w \in 1..MaxRequests : WorkerTrains(w)
  \/ \E w \in 1..MaxRequests : WorkerClearsFlag(w)
  \/ \E w \in 1..MaxRequests : WorkerEnables(w)

SpecTraining == InitTraining /\ [][NextTraining]_vars

(***************************************************************************)
(* Claims                                                                  *)
(***************************************************************************)
PseudonymizedOk(r) == r.op = "pseudonymize_text" /\ ~r.raised
DepseudonymizedOwn(r) == r.op = "depseudonymize_text" /\ ~r.args.passed.given

\* no pseudonym of d occurs in text, in an original of d or in another pseudonym
Distinctive(d, text) ==
  \A i \in 1..Len(d) :
    /\ ~Contains(text, d[i][1])
    /\ \A j \in 1..Len(d) :
         /\ ~Contains(d[j][2], d[i][1])
         /\ j # i => ~Contains(d[j][1], d[i][1])

\* C1: round trip.  When pseudonymize_text with preserve_format = True has
\* replaced at least one span of a text (the spans disjoint, no pseudonym of the
\* store occurring in the text, in an original or in another pseudonym),
\* depseudonymize_text called next on its output, with the same store, returns
\* the input text.
C1_RoundTrip ==
  [][(/\ PseudonymizedOk(ret)
      /\ ret.args.preserve_format
      /\ ret.value.stats.entities_processed > 0
      /\ Distinctive(correspondence_map.d, ret.args.text)
      /\ DepseudonymizedOwn(ret')
      /\ ret'.args.pseudonymized_text = ret.value.text)
     => (~ret'.raised /\ ret'.value = ret.args.text)]_vars

\* a dict as the set of its <<key, value>> pairs
Pairs(d) == { <<d[i][1], d[i][2]>> : i \in 1..Len(d) }
DistinctKeys(d) == \A i, j \in 1..Len(d) : d[i][1] = d[j][1] => i = j
DistinctValues(d) == \A i, j \in 1..Len(d) : d[i][2] = d[j][2] => i = j

\* C2: bijection.  In every state of a session made of generate_pseudonym,
\* pseudonymize_text, reset_correspondences, save_correspondence_file and
\* load_correspondence_file of the file that save wrote, reverse_map is the
\* exact inverse of correspondence_map: reverse_map[o] = s if and only if
\* correspondence_map[s] = o, no pseudonym has two originals and no two
\* originals share a pseudonym.
C2_Bijection ==
  /\ correspondence_map.py = "dict"
  /\ Pairs(reverse_map) = { <<p[2], p[1]>> : p \in Pairs(correspondence_map.d) }
  /\ DistinctKeys(correspondence_map.d) /\ DistinctValues(correspondence_map.d)
  /\ DistinctKeys(reverse_map) /\ DistinctValues(reverse_map)

\* C2: a new instance has loaded a saved file that holds two correspondences
C2_LoadedTwo ==
  /\ ret.op = "load_correspondence_file" /\ ret.value /\ ret.args.fresh
  /\ Len(correspondence_map.d) >= 2
  /\ Len(reverse_map) >= 2

UnchangedStore == UNCHANGED <<correspondence_map, reverse_map, entity_counters>>

\* C3: idempotent reuse.  generate_pseudonym(o, c) for an original o that has a
\* pseudonym returns that pseudonym and changes neither the maps nor the
\* counters; for a new original it adds exactly one entry; called twice in a row
\* with the same arguments it returns the same pseudonym and the second call
\* changes nothing.  pseudonymize_text keeps the pseudonym of every original it
\* meets again, adds one entry per pseudonym it creates (never two for one
\* original, also when the original occurs twice in the text), and leaves the
\* counters alone when it creates none.
C3_IdempotentReuse ==
  [][/\ (ret'.op = "generate_pseudonym" /\ ~ret'.raised) =>
          LET o == ret'.args.original_entity
          IN  IF Has(reverse_map, o)
              THEN /\ ret'.value.pseudonym = Get(reverse_map, o)
                   /\ UnchangedStore
              ELSE /\ Len(correspondence_map'.d) = Len(correspondence_map.d) + 1
                   /\ Len(reverse_map') = Len(reverse_map) + 1
                   /\ Get(reverse_map', o) = ret'.value.pseudonym
     /\ (/\ ret.op = "generate_pseudonym" /\ ~ret.raised
         /\ ret'.op = "generate_pseudonym" /\ ret'.args = ret.args) =>
          /\ ~ret'.raised
          /\ ret'.value.pseudonym = ret.value.pseudonym
          /\ UnchangedStore
     /\ PseudonymizedOk(ret') =>
          /\ \A i \in 1..Len(reverse_map) : reverse_map'[i] = reverse_map[i]
          /\ Len(correspondence_map'.d)
               = Len(correspondence_map.d) + ret'.value.stats.pseudonyms_created
          /\ DistinctValues(correspondence_map'.d)
          /\ ret'.value.stats.pseudonyms_created = 0 => UnchangedStore]_vars

\* C3: generate_pseudonym was called for the one original of the store and
\* returned at the lookup
C3_SecondCall ==
  /\ ret.op = "generate_pseudonym" /\ ret.value.reused
  /\ Len(correspondence_map.d) = 1
  /\ Get(reverse_map, ret.args.original_entity) = ret.value.pseudonym

\* C4: persistence round trip.  load_correspondence_file of the file that
\* save_correspondence_file wrote, into a new instance, returns True and leaves
\* a correspondence_map equal to the saved one and entity_counters equal to the
\* saved ones.
C4_PersistenceRoundTrip ==
  (ret.op = "load_correspondence_file" /\ ret.args.fresh /\ disk.by_save) =>
     /\ ret.value
     /\ correspondence_map = PyDict(disk.saved.cm)
     /\ entity_counters = disk.saved.ec

\* C4: a new instance has loaded a saved file that holds correspondences and
\* counters
C4_LoadedSaved ==
  /\ ret.op = "load_correspondence_file" /\ ret.args.fresh /\ disk.by_save
  /\ disk.saved.cm # EmptyDict /\ disk.saved.ec # EmptyDict
  /\ entity_counters # EmptyDict

\* C5: cross-session scenario.  pseudonymize_text of the sentence of DocScenario
\* with no filter splices two distinct pseudonyms; and after the correspondence
\* was saved and loaded into a new instance, depseudonymize_text of that output
\* returns the sentence.
C5_CrossSession ==
  /\ (/\ PseudonymizedOk(ret) /\ ret.args.text = DocScenario.text
      /\ ret.args.entity_types_to_mask = {}) =>
        /\ Len(ret.value.spliced) = 2
        /\ ret.value.spliced[1] # ret.value.spliced[2]
  /\ (/\ DepseudonymizedOwn(ret) /\ ret.args.resumed
      /\ ret.args.source = DocScenario.text) =>
        /\ ~ret.raised
        /\ ret.value = DocScenario.text

\* base_1, base_2, ...: the candidates the uniqueness loop tries after base
Suffixed(base_pseudonym, k) == base_pseudonym \o "_" \o Decimal(k)

\* C6: collision handling.  When generate_pseudonym makes a pseudonym for a new
\* original and the candidate is a key of correspondence_map, it returns the
\* candidate with the first suffix _1, _2, ... that is not a key, records the
\* original under it, and leaves every entry the map had as it was.
C6_CollisionHandling ==
  [][(/\ ret'.op = "generate_pseudonym" /\ ~ret'.raised
      /\ ~Has(reverse_map, ret'.args.original_entity)
      /\ Has(correspondence_map.d,
             Candidate(ret'.args.original_entity, ret'.args.entity_type,
                       CountersAfter(entity_counters, ret'.args.entity_type)))) =>
        LET cm == correspondence_map.d
            base == Candidate(ret'.args.original_entity, ret'.args.entity_type,
                              CountersAfter(entity_counters, ret'.args.entity_type))
            pseudonym == ret'.value.pseudonym
        IN  /\ \E k \in 1..(Len(cm) + 1) :
                 /\ pseudonym = Suffixed(base, k)
                 /\ \A j \in 1..(k - 1) : Has(cm, Suffixed(base, j))
            /\ ~Has(cm, pseudonym)
            /\ \A i \in 1..Len(cm) : correspondence_map'.d[i] = cm[i]
            /\ Len(correspondence_map'.d) = Len(cm) + 1
            /\ Get(correspondence_map'.d, pseudonym) = ret'.args.original_entity]_vars

\* C6: after a file with PERS_0001, PERS_0001_1 and no counters was loaded,
\* generate_pseudonym gave a new person PERS_0001_2
C6_SecondSuffix ==
  /\ ret.op = "generate_pseudonym" /\ ~ret.raised
  /\ ret.value.pseudonym = "PERS_0001_2"
  /\ Get(correspondence_map.d, "PERS_0001") = "Mme Martin"
  /\ Get(correspondence_map.d, "PERS_0001_1") = "M. Dupont"
  /\ Get(correspondence_map.d, "PERS_0001_2") = "M. Durand"

\* the step is a call of load_correspondence_file (the file as it is)
LoadStep == ret'.op = "load_correspondence_file" /\ disk' = disk
\* the file opens, parses and has an object as its correspondences
HasCorrespondences(file) ==
  /\ file.exists /\ file.json
  /\ "correspondences" \in DOMAIN file.data
  /\ file.data.correspondences.kind = "object"
\* two keys of the object have one value
NonInvertible(members) ==
  \E i, j \in 1..Len(members) :
    members[i][1] # members[j][1] /\ members[i][2] = members[j][2]

\* C7: load rejects a non-invertible mapping.  load_correspondence_file of a
\* file whose correspondences give two pseudonyms the same original returns
\* False and leaves the store of the instance as it was.
C7_LoadRejectsNonInvertible ==
  [][(/\ LoadStep /\ HasCorrespondences(disk)
      /\ NonInvertible(disk.data.correspondences.members)) =>
        (~ret'.value /\ UnchangedStore)]_vars

\* C8: load rejects missing fields.  load_correspondence_file of a file that
\* parses and lacks correspondences, entity_counters or metadata returns False.
C8_LoadRejectsMissingField ==
  [][(/\ LoadStep /\ disk.exists /\ disk.json
      /\ RequiredFields \ DOMAIN disk.data # {}) =>
        ~ret'.value]_vars

\* the file binds a pseudonym of cm to another original
Conflicting(cm, members) ==
  \E i \in 1..Len(cm), j \in 1..Len(members) :
    cm[i][1] = members[j][1] /\ cm[i][2] # members[j][2]

\* C9: no silent overwrite on load.  When the store holds pseudonym s for
\* original o1 and the file binds s to another original, load_correspondence_file
\* returns False and every entry the store had is still there, s still for o1.
C9_NoSilentOverwrite ==
  [][(/\ LoadStep /\ correspondence_map.py = "dict" /\ HasCorrespondences(disk)
      /\ Conflicting(correspondence_map.d, disk.data.correspondences.members)) =>
        /\ ~ret'.value
        /\ \A i \in 1..Len(correspondence_map.d) :
             /\ Has(correspondence_map'.d, correspondence_map.d[i][1])
             /\ Get(correspondence_map'.d, correspondence_map.d[i][1])
                  = correspondence_map.d[i][2]]_vars

\* C10: restore on an empty store fails.  depseudonymize_text raises and returns
\* no text when no map is passed and correspondence_map is empty, and when an
\* empty map is passed, whatever correspondence_map holds.
C10_EmptyStoreFails ==
  (/\ ret.op = "depseudonymize_text"
   /\ \/ ~ret.args.passed.given /\ correspondence_map.d = EmptyDict
      \/ ret.args.passed.given /\ ret.args.passed.map = EmptyDict) =>
     (ret.raised /\ ret.value = "")

\* C11: no recognizer.  pseudonymize_text and preview_pseudonymization called
\* while no model is attached raise and return nothing, and leave
\* correspondence_map, reverse_map and entity_counters as they were.
C11_NoRecognizer ==
  [][(/\ ret'.op \in {"pseudonymize_text", "preview_pseudonymization"}
      /\ nlp = "None") =>
        (ret'.raised /\ ret'.value = << >> /\ UnchangedStore)]_vars

\* C11: pseudonymize_text has raised on an instance without a model whose store
\* holds a correspondence
C11_RaisedWithoutModel ==
  /\ ret.op = "pseudonymize_text" /\ ret.raised
  /\ nlp = "None"
  /\ correspondence_map.d # EmptyDict /\ entity_counters # EmptyDict

\* C12: concurrent mutation.  When the callers of generate_pseudonym call under
\* mutual exclusion (each call runs from its first statement to its return with
\* no statement of another call in between), reverse_map is the exact inverse
\* of correspondence_map whenever no call is in progress.  When their
\* statements interleave, the state of C12_SameSurrogate is reached.
C12_SerialisedSafe ==
  (calls.serialised /\ AllIdle) =>
     /\ Len(reverse_map) = Len(correspondence_map.d)
     /\ \A i \in 1..Len(correspondence_map.d) :
          LET pseudonym == correspondence_map.d[i][1]
              original == correspondence_map.d[i][2]
          IN  /\ Has(reverse_map, original)
              /\ Get(reverse_map, original) = pseudonym
              /\ \A j \in 1..Len(correspondence_map.d) :
                   correspondence_map.d[j][2] = original => j = i

\* C12: two callers that were not serialised have both returned, and the two
\* distinct originals they created are bound to the same pseudonym, which
\* correspondence_map gives to only one of them
C12_SameSurrogate ==
  /\ ~calls.serialised /\ AllIdle
  /\ Len(reverse_map) = 2
  /\ reverse_map[1][1] # reverse_map[2][1]
  /\ reverse_map[1][2] = reverse_map[2][2]
  /\ Len(correspondence_map.d) = 1

\* the document of the session with this text
DocOf(text) == CHOOSE doc \in corpus : doc.text = text

RECURSIVE InsertByStart(_, _)
InsertByStart(sorted, e) ==
  IF sorted = << >> THEN <<e>>
  ELSE IF Head(sorted).start <= e.start
       THEN <<Head(sorted)>> \o InsertByStart(Tail(sorted), e)
       ELSE <<e>> \o sorted

RECURSIVE SpansAscending(_)
\* spans from left to right
SpansAscending(ents) ==
  IF ents = << >> THEN << >>
  ELSE InsertByStart(SpansAscending(Tail(ents)), Head(ents))

\* the spans of doc a model with a NER pipe finds whose category passes the
\* filter (every span when the filter is empty), and the others, left to right
KeptSpans(doc, mask) ==
  SelectSeq(SpansAscending(doc.ents), LAMBDA e : mask = {} \/ e.label \in mask)
OtherSpans(doc, mask) ==
  SelectSeq(SpansAscending(doc.ents), LAMBDA e : mask # {} /\ e.label \notin mask)

\* the string put in place of the j-th kept span, spliced listing the strings
\* in the order of the replacements (right to left)
Replacement(spliced, j) == spliced[Len(spliced) + 1 - j]

RECURSIVE ShiftBefore(_, _, _, _)
\* by how much the replacements of kept[j..] left of pos move the text at pos
ShiftBefore(kept, spliced, j, pos) ==
  IF j > Len(kept) THEN 0
  ELSE (IF kept[j].start < pos
        THEN Len(Replacement(spliced, j)) - (kept[j].end - kept[j].start)
        ELSE 0)
       + ShiftBefore(kept, spliced, j + 1, pos)

SpanText(doc, e) == Slice(doc.text, e.start, e.end)

\* C13: category filter.  pseudonymize_text with a non-empty
\* entity_types_to_mask replaces exactly the spans whose category is in it: as
\* many replacements as such spans, each of their texts then has a pseudonym,
\* the text of every other span stands verbatim in the output (at its offset,
\* moved by the replacements to its left), gets no entry, and no counter of a
\* category without a kept span changes.  With an empty filter every span is
\* kept.
C13_CategoryFilter ==
  [][(PseudonymizedOk(ret') /\ nlp = "ner") =>
        LET doc == DocOf(ret'.args.text)
            mask == ret'.args.entity_types_to_mask
            kept == KeptSpans(doc, mask)
            others == OtherSpans(doc, mask)
            spliced == ret'.value.spliced
            kept_labels == { kept[j].label : j \in 1..Len(kept) }
            kept_texts == { SpanText(doc, kept[j]) : j \in 1..Len(kept) }
        IN  /\ mask = {} => (others = << >> /\ Len(kept) = Len(doc.ents))
            /\ ret'.value.stats.entities_processed = Len(kept)
            /\ Len(spliced) = Len(kept)
            /\ \A j \in 1..Len(kept) : Has(reverse_map', SpanText(doc, kept[j]))
            /\ \A i \in 1..Len(others) :
                 LET shift == ShiftBefore(kept, spliced, 1, others[i].start)
                 IN  /\ Slice(ret'.value.text, others[i].start + shift,
                              others[i].end + shift) = SpanText(doc, others[i])
                     /\ SpanText(doc, others[i]) \notin kept_texts =>
                          (Has(reverse_map', SpanText(doc, others[i]))
                             <=> Has(reverse_map, SpanText(doc, others[i])))
            /\ \A i \in 1..Len(reverse_map') :
                 i > Len(reverse_map) => reverse_map'[i][1] \in kept_texts
            /\ Len(correspondence_map'.d) = Len(reverse_map')
            /\ \A t \in (Keys(entity_counters) \cup Keys(entity_counters')) \ kept_labels :
                 /\ Has(entity_counters, t) /\ Has(entity_counters', t)
                 /\ Get(entity_counters', t) = Get(entity_counters, t)]_vars

\* C13: the sentence of DocScenario was pseudonymized on an empty store with the
\* filter ['CODE']: the code value is replaced, the person name stands
C13_OnlyCode ==
  /\ PseudonymizedOk(ret) /\ nlp = "ner"
  /\ ret.args.text = DocScenario.text
  /\ ret.args.entity_types_to_mask = {"CODE"}
  /\ ret.value.text = "M. Durand, CODE_34911D00, travaille chez ACME."
  /\ Keys(reverse_map) = {"CODE-7781"}
  /\ entity_counters = EmptyDict

\* every entry of correspondence_map and of reverse_map and every counter is
\* still there after the step (a counter possibly with another value)
NothingRemoved ==
  /\ correspondence_map'.py = "dict"
  /\ Pairs(correspondence_map.d) \subseteq Pairs(correspondence_map'.d)
  /\ Pairs(reverse_map) \subseteq Pairs(reverse_map')
  /\ Keys(entity_counters) \subseteq Keys(entity_counters')

\* C14: reset.  reset_correspondences leaves correspondence_map, reverse_map and
\* entity_counters empty, as in a new instance; and no other call on the
\* instance removes an entry or a counter.
C14_OnlyResetRemoves ==
  [][/\ ret'.op = "reset_correspondences" =>
          /\ ~ret'.raised
          /\ correspondence_map' = PyDict(EmptyDict)
          /\ reverse_map' = EmptyDict
          /\ entity_counters' = EmptyDict
     /\ ret'.op \notin {"reset_correspondences", "__init__"} => NothingRemoved]_vars

RECURSIVE SumValues(_)
\* the sum of the values of a dict of numbers
SumValues(d) == IF d = << >> THEN 0 ELSE Head(d)[2] + SumValues(Tail(d))

\* C15: statistics accounting.  For every pseudonymize_text call that returns,
\* entities_processed is the number of spans kept by the filter, the sum of
\* pseudonyms_created and pseudonyms_reused, and the sum of entities_by_type
\* (which counts, category by category, the kept spans); pseudonyms_created is
\* the number of entries the call added to correspondence_map and to
\* reverse_map, a text kept several times being created at most once.
C15_StatisticsAccounting ==
  [][PseudonymizedOk(ret') =>
        LET doc == DocOf(ret'.args.text)
            kept == IF nlp = "ner"
                    THEN KeptSpans(doc, ret'.args.entity_types_to_mask)
                    ELSE << >>
            stats == ret'.value.stats
            new_texts == { SpanText(doc, kept[j]) : j \in 1..Len(kept) }
                           \ Keys(reverse_map)
        IN  /\ stats.entities_processed = Len(kept)
            /\ stats.entities_processed
                 = stats.pseudonyms_created + stats.pseudonyms_reused
            /\ stats.entities_processed = SumValues(stats.entities_by_type)
            /\ \A t \in Keys(stats.entities_by_type) :
                 Get(stats.entities_by_type, t)
                   = Cardinality({ j \in 1..Len(kept) : kept[j].label = t })
            /\ stats.pseudonyms_created
                 = Len(correspondence_map'.d) - Len(correspondence_map.d)
            /\ stats.pseudonyms_created = Len(reverse_map') - Len(reverse_map)
            /\ stats.pseudonyms_created = Cardinality(new_texts)
            /\ stats.original_length = Len(ret'.args.text)
            /\ stats.final_length = Len(ret'.value.text)]_vars

\* C15: 'Alice met Bob, Bob' was pseudonymized on an empty store: three spans,
\* two pseudonyms created, one reused
C15_CreatedAndReused ==
  /\ PseudonymizedOk(ret)
  /\ ret.args.text = DocPeople.text
  /\ ret.value.stats.entities_processed = 3
  /\ ret.value.stats.pseudonyms_created = 2
  /\ ret.value.stats.pseudonyms_reused = 1
  /\ Len(correspondence_map.d) = 2

\* the categories of the strategy table under which a pseudonym of cm was
\* created: those whose prefix a key of cm starts with (the prefixes of the table
\* differ, and the fallback prefix ENT is none of them)
CategoriesCreated(cm) ==
  { t \in StrategyTypes :
      \E i \in 1..Len(cm) : StartsAt(cm[i][1], ConfigOf(t).prefix \o "_", 1) }

\* C16: saved metadata.  In the file save_correspondence_file writes,
\* metadata.total_pseudonyms is the number of correspondences saved and
\* metadata.entity_types lists every category under which a saved pseudonym was
\* created, the categories of the hash strategy (CODE) included.
C16_MetadataCategories ==
  disk.by_save =>
    LET metadata == disk.data.metadata
        entity_types == { metadata.entity_types[i] :
                            i \in 1..Len(metadata.entity_types) }
    IN  /\ metadata.total_pseudonyms = Len(disk.data.correspondences.members)
        /\ CategoriesCreated(disk.data.correspondences.members) \subseteq entity_types

RECURSIVE Substituted(_, _, _, _, _)
\* text from offset pos on, with kept[j..] (disjoint, left to right) replaced by
\* their replacements and everything else copied
Substituted(text, kept, spliced, j, pos) ==
  IF j > Len(kept) THEN Slice(text, pos, Len(text))
  ELSE Slice(text, pos, kept[j].start) \o Replacement(spliced, j)
       \o Substituted(text, kept, spliced, j + 1, kept[j].end)

\* C17: position-safe splicing.  pseudonymize_text replaces the kept spans from
\* right to left (the i-th string it splices is, up to letter case, the
\* pseudonym of the span with the i-th greatest start), and its output is the
\* input with each kept span replaced by that string and every character
\* outside the kept spans copied in order.
C17_PositionSafeSplicing ==
  [][(PseudonymizedOk(ret') /\ nlp = "ner") =>
        LET doc == DocOf(ret'.args.text)
            kept == KeptSpans(doc, ret'.args.entity_types_to_mask)
            spliced == ret'.value.spliced
        IN  /\ Len(spliced) = Len(kept)
            /\ \A j \in 1..Len(kept) :
                 /\ j > 1 => kept[j - 1].end <= kept[j].start
                 /\ StrUpper(Replacement(spliced, j))
                      = StrUpper(Get(reverse_map', SpanText(doc, kept[j])))
            /\ ret'.value.text = Substituted(doc.text, kept, spliced, 1, 0)]_vars

\* C17: 'Alice met Bob, Bob' was pseudonymized on an empty store: the rightmost
\* span got the first pseudonym and the output has the three names replaced
C17_RightToLeft ==
  /\ PseudonymizedOk(ret)
  /\ ret.args.text = DocPeople.text
  /\ ret.value.spliced = <<"Pers_0001", "Pers_0001", "Pers_0002">>
  /\ ret.value.text = "Pers_0002 met Pers_0001, Pers_0001"
  /\ Get(correspondence_map.d, "PERS_0001") = "Bob"

\* the keys of d that stand in text at position i, and the longest of them
KeysAt(d, text, i) == { k \in Keys(d) : StartsAt(text, k, i) }
LongestAt(d, text, i) ==
  CHOOSE k \in KeysAt(d, text, i) : \A other \in KeysAt(d, text, i) : Len(other) <= Len(k)

RECURSIVE LongestFirst(_, _, _)
\* text from position i on, each pseudonym of d met from left to right replaced
\* by its original, the longest pseudonym where several start at one place
LongestFirst(d, text, i) ==
  IF i > Len(text) THEN ""
  ELSE IF KeysAt(d, text, i) = {} THEN Char(text, i) \o LongestFirst(d, text, i + 1)
  ELSE LET k == LongestAt(d, text, i)
       IN  Get(d, k) \o LongestFirst(d, text, i + Len(k))

\* one key of d is a proper part of another
Nested(d) == \E k, l \in Keys(d) : k # l /\ Contains(l, k)

\* C18: longest-first restore.  depseudonymize_text returns its text with every
\* occurrence of a pseudonym replaced by the original of that pseudonym, and
\* where a pseudonym and a longer one that contains it (ENT_0001 and
\* ENT_0001_1) stand at the same place, by the original of the longer one.
C18_LongestFirst ==
  (ret.op = "depseudonymize_text" /\ ~ret.raised) =>
     ret.value = LongestFirst(CorrespMapUsed(ret.args.passed, correspondence_map.d),
                              ret.args.pseudonymized_text, 1)

\* C18: on a store that holds ENT_0001 and ENT_0001_1, a text with both was
\* restored
C18_SuffixedRestored ==
  /\ ret.op = "depseudonymize_text" /\ ~ret.raised
  /\ Nested(correspondence_map.d)
  /\ ret.args.pseudonymized_text = "ENT_0001_1, ENT_0001"
  /\ ret.value = "x@y.fr, 12/05"

\* the structured template of entity_type filled with counter value k
TemplateValue(entity_type, k) == ConfigOf(entity_type).prefix \o "_" \o Format04d(k)

\* the value of a counter, 0 for a category that has none
CounterOf(ec, entity_type) == IF Has(ec, entity_type) THEN Get(ec, entity_type) ELSE 0

\* the keys of cm that start with prefix and an underscore, in the order of
\* their creation
KeysWithPrefix(cm, prefix) ==
  SelectSeq([i \in 1..Len(cm) |-> cm[i][1]], LAMBDA k : StartsAt(k, prefix \o "_", 1))

\* the step is a generate_pseudonym call that creates a pseudonym by the
\* structured strategy
CreatesStructured ==
  /\ ret'.op = "generate_pseudonym" /\ ~ret'.raised
  /\ ~Has(reverse_map, ret'.args.original_entity)
  /\ ConfigOf(ret'.args.entity_type).type = "structured"

\* C19 as stated: structured counters start at 1 and advance by one, and a new
\* original created under a category of the structured strategy (the fallback
\* configuration of a category absent from the table is structured too)
\* receives the template of the category filled with the counter just issued.
C19_TemplateOfEveryCategory ==
  [][CreatesStructured =>
        LET t == ret'.args.entity_type
        IN  /\ CounterOf(entity_counters', t) = CounterOf(entity_counters, t) + 1
            /\ ret'.value.pseudonym
                 = TemplateValue(t, CounterOf(entity_counters', t))]_vars

\* C19, amended: starting from an empty store, without load, in every state and
\* for every structured category c of the strategy table the pseudonyms created
\* under c are, in the order of their creation, the template of c filled with
\* 1, 2, ..., and entity_counters[c] is their number.  For the categories absent
\* from the table, which share the prefix ENT, the counters add up to the number
\* of ENT pseudonyms, each counter advances by one per creation, and a new
\* pseudonym is the template filled with the counter just issued, followed by a
\* collision suffix when another category has taken that value.
C19_CountersPerCategory ==
  [][/\ \A t \in StrategyTypes :
          ConfigOf(t).type = "structured" =>
            LET created == KeysWithPrefix(correspondence_map'.d, ConfigOf(t).prefix)
            IN  /\ Len(created) = CounterOf(entity_counters', t)
                /\ \A k \in 1..Len(created) : created[k] = TemplateValue(t, k)
     /\ LET fallback == { t \in Keys(entity_counters') : t \notin StrategyTypes }
        IN  /\ \A t \in fallback : CounterOf(entity_counters', t) >= 1
            /\ SumValues(SelectSeq(entity_counters', LAMBDA c : c[1] \in fallback))
                 = Len(KeysWithPrefix(correspondence_map'.d, "ENT"))
     /\ CreatesStructured =>
          LET t == ret'.args.entity_type
              base == TemplateValue(t, CounterOf(entity_counters', t))
          IN  /\ CounterOf(entity_counters', t) = CounterOf(entity_counters, t) + 1
              /\ IF Has(correspondence_map.d, base)
                 THEN /\ t \notin StrategyTypes
                      /\ \E n \in 1..Len(correspondence_map.d) :
                           ret'.value.pseudonym = Suffixed(base, n)
                 ELSE ret'.value.pseudonym = base]_vars

\* C19: on a store created empty, two persons have PERS_0001 and PERS_0002 and
\* the counter of PERSONNE is 2
C19_SecondPerson ==
  /\ KeysWithPrefix(correspondence_map.d, "PERS") = <<"PERS_0001", "PERS_0002">>
  /\ CounterOf(entity_counters, "PERSONNE") = 2
  /\ ret.op = "generate_pseudonym" /\ ret.value.pseudonym = "PERS_0002"

\* C20: counters are monotonic.  Across generate_pseudonym, pseudonymize_text,
\* depseudonymize_text, save_correspondence_file and load_correspondence_file
\* calls on an instance, every counter stays and never gets a smaller value;
\* only reset_correspondences takes counters back.
C20_CountersMonotonic ==
  [][ret'.op \notin {"reset_correspondences", "__init__"} =>
        \A t \in Keys(entity_counters) :
          /\ Has(entity_counters', t)
          /\ Get(entity_counters', t) >= Get(entity_counters, t)]_vars

\* the step is the first call after a successful load of the saved file into a
\* new instance, and it creates a pseudonym by the structured strategy
CreatesAfterLoad ==
  /\ ret.op = "load_correspondence_file" /\ ret.value /\ ret.args.fresh
  /\ disk.by_save
  /\ CreatesStructured

\* C21 as stated: after a store is saved and loaded into a new instance, the
\* next new original created under a category c of the structured strategy
\* receives the counter value saved for c plus one, and its pseudonym is the
\* template filled with that value, no collision suffix being needed to make it
\* differ from every loaded pseudonym.
C21_NoSuffixAfterLoad ==
  [][CreatesAfterLoad =>
        LET t == ret'.args.entity_type
            issued == CounterOf(disk.saved.ec, t) + 1
        IN  /\ CounterOf(entity_counters', t) = issued
            /\ ret'.value.pseudonym = TemplateValue(t, issued)
            /\ ~Has(disk.saved.cm, ret'.value.pseudonym)]_vars

\* C21, amended: after a store is saved and loaded into a new instance, the next
\* new original created under a structured category c receives the counter
\* value saved for c plus one and a pseudonym that no loaded pseudonym equals.
\* For a category of the strategy table the pseudonym is the template filled
\* with that value, without collision suffix.  For a category absent from the
\* table, which shares the prefix ENT with the other such categories, it is the
\* template filled with that value, followed by a collision suffix when a loaded
\* pseudonym already has that value.
C21_CounterContinuity ==
  [][CreatesAfterLoad =>
        LET t == ret'.args.entity_type
            issued == CounterOf(disk.saved.ec, t) + 1
            base == TemplateValue(t, issued)
        IN  /\ CounterOf(entity_counters', t) = issued
            /\ ~Has(disk.saved.cm, ret'.value.pseudonym)
            /\ IF Has(disk.saved.cm, base)
               THEN /\ t \notin StrategyTypes
                    /\ \E n \in 1..Len(disk.saved.cm) :
                         ret'.value.pseudonym = Suffixed(base, n)
               ELSE ret'.value.pseudonym = base]_vars

\* C21: Alice was saved as PERS_0001 with the counter of PERSONNE at 1; after
\* the load into a new instance Bob is created as PERS_0002
C21_SecondAfterLoad ==
  /\ ret.op = "generate_pseudonym" /\ ret.args.resumed /\ ~ret.value.reused
  /\ disk.saved.cm = <<<<"PERS_0001", "Alice">>>>
  /\ CounterOf(disk.saved.ec, "PERSONNE") = 1
  /\ ret.args.original_entity = "Bob"
  /\ ret.value.pseudonym = "PERS_0002"
  /\ CounterOf(entity_counters, "PERSONNE") = 2

\* the step is a generate_pseudonym call that creates a pseudonym for a new
\* original of the category CODE
CreatesCode ==
  /\ ret'.op = "generate_pseudonym" /\ ~ret'.raised
  /\ ret'.args.entity_type = "CODE"
  /\ ~Has(reverse_map, ret'.args.original_entity)

\* h is 8 hex characters, letters in upper case
IsHex8Upper(h) ==
  /\ Len(h) = 8
  /\ \A i \in 1..8 : Contains("0123456789ABCDEF", Char(h, i))

\* C22 as stated: for every original o not yet in the store,
\* generate_pseudonym(o, 'CODE') returns CODE_ followed by the first 8 upper-cased
\* hex characters of the hash of o, whatever the store and the counters hold,
\* and leaves entity_counters unchanged.
C22_HashWhateverTheStore ==
  [][CreatesCode =>
        /\ ret'.value.pseudonym = "CODE_" \o Md5Hex8(ret'.args.original_entity)
        /\ entity_counters' = entity_counters]_vars

\* C22, amended: for every original o not yet in the store,
\* generate_pseudonym(o, 'CODE') leaves entity_counters unchanged and returns a
\* pseudonym that depends on o and on the keys of correspondence_map only, never
\* on the counters: CODE_ followed by the first 8 upper-cased hex characters of
\* the hash of o when that string is not yet a key, and that string followed by
\* a collision suffix when it is already the pseudonym of another original.
C22_HashDeterminism ==
  [][CreatesCode =>
        LET base == "CODE_" \o Md5Hex8(ret'.args.original_entity)
        IN  /\ IsHex8Upper(Md5Hex8(ret'.args.original_entity))
            /\ entity_counters' = entity_counters
            /\ IF Has(correspondence_map.d, base)
               THEN /\ Get(correspondence_map.d, base) # ret'.args.original_entity
                    /\ \E n \in 1..Len(correspondence_map.d) :
                         /\ ret'.value.pseudonym = Suffixed(base, n)
                         /\ \A m \in 1..(n - 1) :
                              Has(correspondence_map.d, Suffixed(base, m))
               ELSE ret'.value.pseudonym = base]_vars

\* C22: CODE-7781 gets its hash while the store holds a person and the counter
\* of PERSONNE is 1, and no counter moves
C22_HashBesideCounters ==
  /\ ret.op = "generate_pseudonym" /\ ~ret.value.reused
  /\ ret.args.original_entity = "CODE-7781"
  /\ ret.value.pseudonym = "CODE_34911D00"
  /\ Has(reverse_map, "M. Durand")
  /\ entity_counters = <<<<"PERSONNE", 1>>>>

\* the step is a generate_pseudonym call that creates a pseudonym under a
\* category absent from pseudonym_strategies
CreatesUnconfigured ==
  /\ ret'.op = "generate_pseudonym" /\ ~ret'.raised
  /\ ~Has(reverse_map, ret'.args.original_entity)
  /\ ret'.args.entity_type \notin StrategyTypes

\* C23 as stated: for every category absent from the strategy table
\* generate_pseudonym produces ENT_ followed by the 4-digit zero-padded counter
\* value just issued, also when several unconfigured categories are used in the
\* same store.
C23_FallbackWithoutSuffix ==
  [][CreatesUnconfigured =>
        ret'.value.pseudonym
          = "ENT_" \o Format04d(CounterOf(entity_counters', ret'.args.entity_type))]_vars

\* C23, amended: for every category absent from the strategy table
\* generate_pseudonym issues the next value of that category's own counter and
\* produces ENT_ followed by the 4-digit zero-padded value when no pseudonym of
\* the store has it; when several unconfigured categories are used in the same
\* store and another one has taken ENT_ with that value, it produces that string
\* followed by the first free collision suffix _1, _2, ...
C23_GenericFallback ==
  [][CreatesUnconfigured =>
        LET t == ret'.args.entity_type
            issued == CounterOf(entity_counters, t) + 1
            base == "ENT_" \o Format04d(issued)
        IN  /\ CounterOf(entity_counters', t) = issued
            /\ Len(base) = 8
            /\ IF Has(correspondence_map.d, base)
               THEN \E n \in 1..Len(correspondence_map.d) :
                      /\ ret'.value.pseudonym = Suffixed(base, n)
                      /\ \A m \in 1..(n - 1) :
                           Has(correspondence_map.d, Suffixed(base, m))
               ELSE ret'.value.pseudonym = base]_vars

\* C23: EMAIL and DATE are used in one store; the e-mail address has ENT_0001
\* and the date, whose counter is 1 too, is given ENT_0001_1
C23_TwoUnconfigured ==
  /\ ret.op = "generate_pseudonym" /\ ~ret.value.reused
  /\ ret.args.entity_type = "DATE"
  /\ ret.value.pseudonym = "ENT_0001_1"
  /\ Has(correspondence_map.d, "ENT_0001")
  /\ entity_counters = <<<<"EMAIL", 1>>, <<"DATE", 1>>>>

\* C24: case mirroring is cosmetic.  When pseudonymize_text is called with
\* preserve_format, the store it leaves is the store the same call leaves without
\* preserve_format; for every kept span the store holds the span text,
\* unmodified, as the original of its pseudonym, the string spliced for the span
\* equals that pseudonym up to letter case, and a spliced string whose case was
\* changed is not a key of correspondence_map.
C24_CaseMirroringCosmetic ==
  [][(PseudonymizedOk(ret') /\ ret'.args.preserve_format /\ nlp = "ner") =>
        LET doc == DocOf(ret'.args.text)
            mask == ret'.args.entity_types_to_mask
            kept == KeptSpans(doc, mask)
            spliced == ret'.value.spliced
            plain == PseudonymizeTextOn(Store, doc.text, doc.ents, mask, FALSE)
        IN  /\ correspondence_map'.d = plain.st.cm
            /\ reverse_map' = plain.st.rm
            /\ entity_counters' = plain.st.ec
            /\ Len(spliced) = Len(plain.spliced)
            /\ \A j \in 1..Len(kept) :
                 LET original == SpanText(doc, kept[j])
                     pseudonym == Get(reverse_map', original)
                     put == Replacement(spliced, j)
                 IN  /\ Get(correspondence_map'.d, pseudonym) = original
                     /\ pseudonym = Replacement(plain.spliced, j)
                     /\ StrUpper(put) = StrUpper(pseudonym)
                     /\ put # pseudonym => ~Has(correspondence_map'.d, put)]_vars

\* C24: 'x@y.fr, 12/05' was pseudonymized on an empty store with preserve_format:
\* the date got ENT_0001 as it is, the address got ENT_0001_1 in lower case, and
\* the store holds ENT_0001_1 for 'x@y.fr'
C24_LowerCaseSpliced ==
  /\ PseudonymizedOk(ret) /\ ret.args.preserve_format
  /\ ret.args.text = DocGeneric.text
  /\ ret.value.spliced = <<"ENT_0001", "ent_0001_1">>
  /\ ret.value.text = "ent_0001_1, ENT_0001"
  /\ correspondence_map.d = <<<<"ENT_0001", "12/05">>, <<"ENT_0001_1", "x@y.fr">>>>

\* the originals of rm that equal text up to letter case
CaseVariants(rm, text) ==
  { i \in 1..Len(rm) : StrUpper(rm[i][1]) = StrUpper(text) }

\* C25: case variants share one stored pseudonym.  When pseudonymize_text
\* replaces a span whose text equals a stored original up to letter case (as
\* 'acme corp' after 'ACME CORP'), the string it splices is the pseudonym of that
\* original in the letter case of the span, the stored original keeps the casing
\* of the first occurrence, and the store gains no entry for the span.
C25_CaseVariantsShare ==
  [][(PseudonymizedOk(ret') /\ ret'.args.preserve_format /\ nlp = "ner") =>
        LET doc == DocOf(ret'.args.text)
            kept == KeptSpans(doc, ret'.args.entity_types_to_mask)
            spliced == ret'.value.spliced
        IN  \A j \in 1..Len(kept) :
              \A i \in CaseVariants(reverse_map, SpanText(doc, kept[j])) :
                /\ StrUpper(Replacement(spliced, j)) = StrUpper(reverse_map[i][2])
                /\ Get(correspondence_map'.d, reverse_map[i][2]) = reverse_map[i][1]
                /\ CaseVariants(reverse_map', SpanText(doc, kept[j])) = {i}]_vars

\* the operations that only read the store
ReadOnlyOps ==
  {"depseudonymize_text", "save_correspondence_file", "preview_pseudonymization",
   "get_pseudonymization_summary"}

\* the step is a pseudonymize_text call on a text in which no span is kept
NoSpanKept ==
  /\ ret'.op = "pseudonymize_text"
  /\ KeptSpans(DocOf(ret'.args.text), ret'.args.entity_types_to_mask) = << >>

\* C26: read-only operations leave the store unchanged.  depseudonymize_text,
\* save_correspondence_file, preview_pseudonymization,
\* get_pseudonymization_summary, and pseudonymize_text on a text in which no
\* span is kept, leave correspondence_map, reverse_map and entity_counters as
\* they were, whether they return or raise; a step that changes one of them is
\* a generate_pseudonym call, a pseudonymize_text call with a kept span, a load,
\* a reset or the creation of a new instance.
C26_ReadOnlyOperations ==
  [][/\ (ret'.op \in ReadOnlyOps \/ NoSpanKept) =>
          UNCHANGED <<correspondence_map, reverse_map, entity_counters>>
     /\ ~(UNCHANGED <<correspondence_map, reverse_map, entity_counters>>) =>
          \/ ret'.op \in {"generate_pseudonym", "load_correspondence_file",
                          "reset_correspondences", "__init__"}
          \/ ret'.op = "pseudonymize_text" /\ ~NoSpanKept]_vars

\* C26: with two correspondences in the store, pseudonymize_text was called with
\* a filter that keeps no span of the sentence and returned the sentence as it
\* was
C26_NothingKept ==
  /\ PseudonymizedOk(ret)
  /\ ret.args.text = DocScenario.text
  /\ ret.args.entity_types_to_mask = {"LIEU"}
  /\ ret.value.text = DocScenario.text
  /\ ret.value.stats.entities_processed = 0
  /\ Len(correspondence_map.d) = 2

\* how often element x occurs in sequence seq
Occurrences(seq, x) == Cardinality({ i \in 1..Len(seq) : seq[i] = x })

\* the step is the return of the call whose for loop is in progress
Returns(op) == InLoop(op) /\ calls'.loop.op = "none"

\* C27: termination.  Every generate_pseudonym, pseudonymize_text and
\* depseudonymize_text call in progress comes to its end, the caller's thread
\* taking its steps.  In the uniqueness loop of generate_pseudonym the number of
\* tests made or about to be made (counter) is at most the number of stored
\* pseudonyms plus one.  A pseudonymize_text call that returns has made one
\* iteration for each entity, a depseudonymize_text call that returns one
\* iteration for each stored pseudonym, none twice.
C27_Termination ==
  /\ [](\A c \in Callers :
          calls.frame[c].pc \in {"unique", "record_map"} =>
            calls.frame[c].counter <= Len(correspondence_map.d) + 1)
  /\ [][/\ Returns("pseudonymize_text") =>
             LET doc == DocOf(ret'.args.text)
                 handled == ret'.value.handled
             IN  /\ Len(handled) = Len(doc.ents)
                 /\ ret'.value.stats.entities_processed = Len(doc.ents)
                 /\ \A i \in 1..Len(doc.ents) :
                      Occurrences([j \in 1..Len(handled) |->
                                     Span(handled[j].start, handled[j].end,
                                          handled[j].label)],
                                  doc.ents[i]) = 1
        /\ Returns("depseudonymize_text") =>
             LET handled == ret'.value.handled
             IN  /\ Len(handled) = Len(correspondence_map.d)
                 /\ \A k \in Keys(correspondence_map.d) : Occurrences(handled, k) = 1]_vars
  /\ (~NoCallInProgress ~> NoCallInProgress)

\* C27: pseudonymize_text has returned for 'x@y.fr, 12/05' on an empty store after
\* two iterations, the second of which called generate_pseudonym and went through
\* its uniqueness loop once
C27_LoopsEnded ==
  /\ NoCallInProgress
  /\ PseudonymizedOk(ret)
  /\ ret.args.text = DocGeneric.text
  /\ Len(ret.value.handled) = 2
  /\ ret.value.spliced = <<"ENT_0001", "ent_0001_1">>

\* C28: failed load is atomic.  Whenever load_correspondence_file returns False
\* (the file cannot be read, is no JSON, or its correspondences are no mapping),
\* correspondence_map, reverse_map and entity_counters are as they were before
\* the call, and reverse_map is still the inverse of correspondence_map.
C28_FailedLoadAtomic ==
  [][(LoadStep /\ ~ret'.value) =>
        /\ UNCHANGED <<correspondence_map, reverse_map, entity_counters>>
        /\ (correspondence_map.py = "dict" /\ reverse_map = Inverted(correspondence_map.d))
             => (/\ correspondence_map'.py = "dict"
                 /\ reverse_map' = Inverted(correspondence_map'.d))]_vars

\* C29: restore does not rewrite what it has restored.  The text
\* depseudonymize_text returns is its input with every pseudonym occurrence
\* replaced by its original, all at once: what a replacement has written is not
\* changed by the replacement of another pseudonym, also when a stored original
\* contains a shorter stored pseudonym.
C29_SimultaneousRestore ==
  [][(ret'.op = "depseudonymize_text" /\ ~ret'.raised) =>
        ret'.value = LongestFirst(CorrespMapUsed(ret'.args.passed, correspondence_map.d),
                                  ret'.args.pseudonymized_text, 1)]_vars

\* the step is a start_training call made while a worker is in _run_training
RequestWhileRunning ==
  /\ training'.requests = training.requests + 1
  /\ Running(training) # {}

\* C30: single training run.  At most one worker is in _run_training at any
\* time, and a start_training call made after a worker was started and before
\* it has finished returns at the tests it begins with (the
\* training_in_progress test, which comes first, when training_in_progress is
\* set): it starts no worker and leaves model_trainer as it is, in every
\* interleaving of the UI thread and the workers.
C30_SingleTrainingRun ==
  [][/\ Cardinality(Running(training')) <= 1
     /\ RequestWhileRunning =>
          /\ training'.last \in {"rejected", "missing"}
          /\ training'.ui = "idle"
          /\ training'.model_trainer = training.model_trainer]_vars

=============================================================================
